---- MODULE Spec2Model ----
(***************************************************************************)
(* A model of the fetch-and-resolve pipeline of app/services/              *)
(* shopify.service.ts: the cursor-paginated fetches, the cost-limit        *)
(* fallback of fetchAllProducts, the global media index (fetchAllMedia)    *)
(* and the file-reference resolver (processMetafields,                     *)
(* processMetafieldsWithFetch, transformDataForLLM).                       *)
(*                                                                         *)
(* Strings the code takes apart (ids, URLs) are sequences of their         *)
(* '/'-separated segments: "gid://shopify/Video/42" is                     *)
(* <<"gid:", "", "shopify", "Video", "42">>, "42" is <<"42">> and the      *)
(* empty string is <<"">>.  No segment of the universe other than "gid:"   *)
(* ends in "gid:".  <<>> stands for null / undefined.                      *)
(***************************************************************************)
EXTENDS Integers, Sequences, FiniteSets, TLC

\* ------------------------------------------------------------------------
\* Bounds of the model
\* ------------------------------------------------------------------------

\* Largest number of pages the upstream catalog holds.
MaxPages == 3

\* Largest number of THROTTLED answers the upstream gives during one fetch.
MaxThrottle == 1

\* Largest number of detail queries the upstream fails during one fetch.
MaxDetailFaults == 1

\* Largest number of page requests answered by a listing that never ends.
MaxEndlessRequests == 51

\* ------------------------------------------------------------------------
\* Strings
\* ------------------------------------------------------------------------

NoStr == <<>>

EmptyStr == <<"">>

\* JavaScript truthiness of a string-or-undefined value.
Truthy(s) == s # NoStr /\ s # EmptyStr

\* Positions at which the substring 'gid://' starts in s.
GidAt(s) == {i \in 1..Len(s) : s[i] = "gid:" /\ i + 2 <= Len(s) /\ s[i + 1] = ""}

\* s.includes('gid://')
IncludesGid(s) == GidAt(s) # {}

Min(S) == CHOOSE x \in S : \A y \in S : x <= y

\* s.replace('gid://', ''): removes the first occurrence only.
StripGid(s) ==
    IF GidAt(s) = {} THEN s
    ELSE LET i == Min(GidAt(s))
         IN SubSeq(s, 1, i - 1) \o SubSeq(s, i + 2, Len(s))

\* s.split('/') followed by taking the last part.
NumericId(s) == <<s[Len(s)]>>

Gid(type, n) == <<"gid:", "", "shopify", type, n>>

Url(n) == <<"https:", "", "cdn", n>>

\* ------------------------------------------------------------------------
\* Maps (JavaScript Map<string, string>)
\* ------------------------------------------------------------------------

EmptyMap == [k \in {} |-> NoStr]

MapSet(m, k, v) == [x \in DOMAIN m \cup {k} |-> IF x = k THEN v ELSE m[x]]

MapGet(m, k) == IF k \in DOMAIN m THEN m[k] ELSE NoStr

MapHas(m, k) == k \in DOMAIN m

\* ------------------------------------------------------------------------
\* Media nodes and the index keys they contribute
\* ------------------------------------------------------------------------

\* A node of a media listing: image is the image url (NoStr when the node
\* has no image), sources the urls of its sources, embeddedUrl its embedded
\* url (NoStr when absent).  The same shape serves the nodes of the other
\* listings, of which only the id matters.
Node(id, image, sources, embeddedUrl) ==
    [id |-> id, image |-> image, sources |-> sources, embeddedUrl |-> embeddedUrl]

\* A choice of url that looks at the embedded url first.
MediaUrlEmbeddedFirst(media) ==
    IF Truthy(media.embeddedUrl) THEN media.embeddedUrl
    ELSE IF Len(media.sources) > 0 THEN media.sources[1]
    ELSE IF Truthy(media.image) THEN media.image
    ELSE NoStr

\* The url taken from a media node: image url, else first source url, else
\* embedded url, else null.
MediaUrlOf(media) ==
    IF Truthy(media.image) THEN media.image
    ELSE IF Len(media.sources) > 0 THEN media.sources[1]
    ELSE IF Truthy(media.embeddedUrl) THEN media.embeddedUrl
    ELSE NoStr

\* Three keys that leave a key alone when the index already holds it.
ThreeKeysFirstWins(m, id, url) ==
    LET put(mm, k) == IF MapHas(mm, k) THEN mm ELSE MapSet(mm, k, url)
    IN put(put(put(m, id), StripGid(id)), NumericId(id))

\* The three keys one media item adds to an index.
ThreeKeys(m, id, url) ==
    MapSet(MapSet(MapSet(m, id, url), StripGid(id), url), NumericId(id), url)

\* One iteration of the loop over files.nodes in fetchAllMedia.
AddMedia(m, media) ==
    IF ~Truthy(media.id) THEN m
    ELSE IF Truthy(MediaUrlOf(media))
         THEN ThreeKeys(m, media.id, MediaUrlOf(media))
         ELSE m

RECURSIVE AddAllMedia(_, _)
AddAllMedia(m, nodes) ==
    IF nodes = <<>> THEN m
    ELSE AddAllMedia(AddMedia(m, Head(nodes)), Tail(nodes))

\* ------------------------------------------------------------------------
\* The upstream
\* ------------------------------------------------------------------------

NodeA == Node(Gid("MediaImage", "42"), Url("a"), <<>>, NoStr)

NodeB == Node(Gid("Video", "42"), NoStr, <<Url("b"), Url("b2")>>, NoStr)

NodeC == Node(Gid("ExternalVideo", "7"), NoStr, <<>>, Url("c"))

NodeD == Node(Gid("MediaImage", "9"), NoStr, <<>>, NoStr)

\* The pages a listing of the upstream may consist of.
PageChoices == {<<>>, <<NodeA>>, <<NodeB, NodeD, NodeC>>}

Catalogs == UNION {[1..n -> PageChoices] : n \in 1..MaxPages}

RECURSIVE Concat(_)
Concat(ps) == IF ps = <<>> THEN <<>> ELSE Head(ps) \o Concat(Tail(ps))

\* The codes an errors envelope of the upstream may carry together.
ErrorCodeSets ==
    {{"THROTTLED"}, {"MAX_COST_EXCEEDED"}, {"OTHER"}, {"THROTTLED", "OTHER"}}

\* What the upstream answers to one request: a data envelope ("data"), a
\* data envelope without the listing asked for ("nodata"), an errors
\* envelope with the codes of its errors ("errors"), a non-success HTTP
\* status whose body does or does not contain the text 'cost limit'
\* ("http"), or no answer at all ("network").
Response(t, codes, costText) == [t |-> t, codes |-> codes, costText |-> costText]

NoResponse == Response("none", {}, FALSE)

Responses ==
    {Response("data", {}, FALSE), Response("nodata", {}, FALSE), Response("network", {}, FALSE)}
    \cup {Response("errors", c, FALSE) : c \in ErrorCodeSets}
    \cup {Response("http", {}, b) : b \in BOOLEAN}

\* ------------------------------------------------------------------------
\* executeGraphQL and the errors of the service
\* ------------------------------------------------------------------------

\* A thrown Error: kind says where it was made, codes and costText what its
\* message quotes.
Err(kind, codes, costText) == [kind |-> kind, codes |-> codes, costText |-> costText]

NoErr == Err("none", {}, FALSE)

\* An executeGraphQL that throws on application-level errors too.
ExecuteThrowsOnErrors(resp) == resp.t \in {"http", "network", "errors"}

\* executeGraphQL throws on a non-success status (quoting the body in the
\* message) and when fetch itself rejects; any parsed envelope is returned.
ExecuteThrows(resp) == resp.t \in {"http", "network"}

ExecuteError(resp) ==
    IF resp.t = "http" THEN Err("http", {}, resp.costText) ELSE Err("network", {}, FALSE)

\* new Error(`GraphQL Error: ${JSON.stringify(response.errors)}`)
GraphQLError(resp) == Err("graphql", resp.codes, FALSE)

\* Destructuring the listing of an envelope that lacks it throws a
\* TypeError; fetchAllCollections throws its own 'Invalid response
\* structure' error.
StructureError == Err("structure", {}, FALSE)

\* A test for throttling that knows an errors list of THROTTLED alone only.
IsThrottledAlone(resp) == resp.t = "errors" /\ resp.codes = {"THROTTLED"}

\* error.message.includes('MAX_COST_EXCEEDED') || error.message.includes('cost limit')
CostSignature(error) ==
    \/ error.kind = "graphql" /\ "MAX_COST_EXCEEDED" \in error.codes
    \/ error.kind = "http" /\ error.costText

\* response.errors.some(e => e.extensions?.code === 'THROTTLED')
IsThrottled(resp) == resp.t = "errors" /\ "THROTTLED" \in resp.codes

\* ------------------------------------------------------------------------
\* The paginating fetches
\* ------------------------------------------------------------------------

Fetches ==
    {"fetchAllProducts", "fetchProductsSimplified", "fetchAllMedia", "fetchAllCollections",
     "fetchProductsForCollection", "fetchAllPages", "fetchMetaobjects", "fetchAllFiles",
     "fetchInventoryLevels"}

\* The query a fetch pages through first.
QueryOf(f) ==
    CASE f = "fetchAllProducts" -> "GetAllProducts"
      [] f = "fetchProductsSimplified" -> "GetAllProductsBasic"
      [] f = "fetchAllMedia" -> "GetAllMedia"
      [] f = "fetchAllCollections" -> "GetAllCollections"
      [] f = "fetchProductsForCollection" -> "GetCollectionProducts"
      [] f = "fetchAllPages" -> "GetAllPages"
      [] f = "fetchMetaobjects" -> "GetMetaobjects"
      [] f = "fetchAllFiles" -> "GetAllFiles"
      [] f = "fetchInventoryLevels" -> "GetAllInventoryLevels"

\* const maxPages = 50 of fetchInventoryLevels, the only loop with a ceiling.
maxPages == 50

\* A loop without a ceiling.
GoesOnUnbounded(q, hasNextPage, pageCount) == hasNextPage

\* while (hasNextPage && pageCount < maxPages): the loop goes on after its
\* pageCount-th request.
GoesOn(q, hasNextPage, pageCount) ==
    hasNextPage /\ (q = "GetAllInventoryLevels" => pageCount < maxPages)

\* if (pageCount === maxPages && hasNextPage) console.warn(...) after the
\* loop of fetchInventoryLevels.
TruncationWarning(q, hasNextPage, pageCount) ==
    q = "GetAllInventoryLevels" /\ pageCount = maxPages /\ hasNextPage

\* data.edges.map(edge => ({inventoryLevelId: edge.node.id, ...}))
InventoryItem(node) == [inventoryLevelId |-> node.id]

\* What a loop collects from the nodes of a page.
ItemsOf(q, nodes) ==
    IF q = "GetAllInventoryLevels"
    THEN [i \in 1..Len(nodes) |-> InventoryItem(nodes[i])]
    ELSE nodes

\* The loops that test the errors of a response for THROTTLED and retry.
RetriesOnThrottle(q) == q \in {"GetAllCollections", "GetCollectionProducts"}

\* A global media cache: null until a build of fetchAllMedia has completed.
NullCache == [set |-> FALSE, map |-> EmptyMap]

SetCache(m) == [set |-> TRUE, map |-> m]

\* What a fetch gave its caller.
Outcome(status, items, index, error) ==
    [status |-> status, items |-> items, index |-> index, error |-> error, warned |-> FALSE]

NoOutcome == Outcome("none", <<>>, EmptyMap, NoErr)

Returned(items) == Outcome("returned", items, EmptyMap, NoErr)

ReturnedIndex(m) == Outcome("returned", <<>>, m, NoErr)

Threw(error) == Outcome("threw", <<>>, EmptyMap, error)

\* A product record of the two-phase strategy: the basic node, and whether
\* the detail query merged metafields and media into it.
Shallow(node) == [id |-> node.id, node |-> node, detailed |-> FALSE]

Enriched(node) == [id |-> node.id, node |-> node, detailed |-> TRUE]

\* A collection that puts the nodes of a page before those it already has.
CollectReversed(collected, nodes) == nodes \o collected

\* allProducts = [...allProducts, ...products.nodes] / collections.push(...nodes)
Collect(collected, nodes) == collected \o nodes

VARIABLES
    pages,            \* the upstream's listing, page by page
    endless,          \* the listing reports hasNextPage = true on every page
    fn,               \* the fetch being run, "idle" when none
    query,            \* the query its loop pages through
    pc,               \* "idle", "page", "backoff", "detail" or "done"
    after,            \* the cursor of the loop: 0 is null, p is page p's endCursor
    collected,        \* the items accumulated by the loop
    mediaCache,       \* the map fetchAllMedia is filling
    globalMediaCache, \* the process-wide media index
    strategy,         \* "single" or "two-phase" (fetchAllProducts)
    detailIdx,        \* the number of products whose detail query was made
    enrichedProducts, \* the records the two-phase strategy has pushed
    throttled,        \* the number of THROTTLED answers so far
    reqLog,           \* the page requests of this fetch with their answers
    detailLog,        \* the ids of the detail queries of this fetch
    slept,            \* the delay (ms) the loop waits after the latest answer
    detailFaults,     \* the number of detail queries that failed
    fallbackCause,    \* the answer that made fetchAllProducts fall back
    outcome           \* what the fetch gave its caller

fetchVars ==
    <<pages, endless, fn, query, pc, after, collected, mediaCache, globalMediaCache, strategy,
      detailIdx, enrichedProducts, throttled, reqLog, detailLog, slept, detailFaults,
      fallbackCause, outcome>>

LogEntry(q, a, resp) == [query |-> q, after |-> a, resp |-> resp]

NoEntry == LogEntry("none", 0, NoResponse)

\* A fetchAllMedia that never looks at the global cache.
AnswersNever(f, global) == FALSE

\* if (globalMediaCache) return globalMediaCache: an empty Map is an index
\* too.
AnswersFromCache(f, global) == f = "fetchAllMedia" /\ global.set

\* A caller invokes one of the fetches.  fetchAllMedia answers from the
\* global cache when it is set, without any request.
StartFetch(f) ==
    /\ pc = "idle"
    /\ fn' = f
    /\ query' = QueryOf(f)
    /\ after' = 0
    /\ collected' = <<>>
    /\ mediaCache' = EmptyMap
    /\ strategy' = IF f = "fetchProductsSimplified" THEN "two-phase" ELSE "single"
    /\ detailIdx' = 0
    /\ enrichedProducts' = <<>>
    /\ throttled' = 0
    /\ reqLog' = <<>>
    /\ detailLog' = <<>>
    /\ slept' = 0
    /\ detailFaults' = 0
    /\ fallbackCause' = NoEntry
    /\ IF AnswersFromCache(f, globalMediaCache)
       THEN /\ pc' = "done"
            /\ outcome' = ReturnedIndex(globalMediaCache.map)
       ELSE /\ pc' = "page"
            /\ outcome' = NoOutcome
    /\ UNCHANGED <<pages, endless, globalMediaCache>>

\* The request the loop makes is answered resp; the log keeps it.
Logged(resp) == reqLog' = Append(reqLog, LogEntry(query, after, resp))

\* The fetch ends here: nothing of its loop changes any more.
LoopStops ==
    /\ slept' = 0
    /\ UNCHANGED <<pages, endless, fn, query, after, collected, mediaCache, strategy,
                   detailIdx, enrichedProducts, throttled, detailLog, detailFaults,
                   fallbackCause>>

\* A fallback that goes on from what the rich pass has collected.
EnterSimplifiedKeepsRich(resp) ==
    /\ pc' = "page"
    /\ query' = "GetAllProductsBasic"
    /\ strategy' = "two-phase"
    /\ after' = 0
    /\ collected' = collected
    /\ outcome' = NoOutcome
    /\ reqLog' = <<>>
    /\ fallbackCause' = LogEntry(query, after, resp)
    /\ slept' = 0
    /\ UNCHANGED <<pages, endless, fn, mediaCache, globalMediaCache, detailIdx, enrichedProducts,
                   throttled, detailLog, detailFaults>>

\* fetchProductsSimplified is entered from the catch block of
\* fetchAllProducts: its basic loop starts from the first page with nothing
\* collected.  The log starts anew with the new loop.
EnterSimplified(resp) ==
    /\ pc' = "page"
    /\ query' = "GetAllProductsBasic"
    /\ strategy' = "two-phase"
    /\ after' = 0
    /\ collected' = <<>>
    /\ outcome' = NoOutcome
    /\ reqLog' = <<>>
    /\ fallbackCause' = LogEntry(query, after, resp)
    /\ slept' = 0
    /\ UNCHANGED <<pages, endless, fn, mediaCache, globalMediaCache, detailIdx, enrichedProducts,
                   throttled, detailLog, detailFaults>>

\* Catch blocks that all hand the error on to the caller.
ThrownToCaller(error, resp) ==
    /\ pc' = "done"
    /\ outcome' = Threw(error)
    /\ Logged(resp)
    /\ UNCHANGED globalMediaCache
    /\ LoopStops

\* A catch block of fetchAllMedia that keeps what the build has collected.
ThrownKeepsPartial(error, resp) ==
    IF query = "GetAllMedia"
    THEN /\ pc' = "done"
         /\ outcome' = ReturnedIndex(mediaCache)
         /\ Logged(resp)
         /\ globalMediaCache' = SetCache(mediaCache)
         /\ LoopStops
    ELSE ThrownToCaller(error, resp)

\* The request of the running loop was answered resp and error is thrown
\* inside the try block: what the catch block of that function does.
Thrown(error, resp) ==
    CASE query = "GetAllMedia" ->
            \* fail open: an empty map, the global cache is not set
            /\ pc' = "done"
            /\ outcome' = ReturnedIndex(EmptyMap)
            /\ Logged(resp)
            /\ UNCHANGED globalMediaCache
            /\ LoopStops
      [] query = "GetCollectionProducts" ->
            /\ pc' = "done"
            /\ outcome' = Returned(<<>>)
            /\ Logged(resp)
            /\ UNCHANGED globalMediaCache
            /\ LoopStops
      [] query = "GetAllInventoryLevels" ->
            \* the catch inside the loop ends it: what was collected is returned
            /\ pc' = "done"
            /\ outcome' = Returned(collected)
            /\ Logged(resp)
            /\ UNCHANGED globalMediaCache
            /\ LoopStops
      [] query = "GetAllProducts" ->
            IF CostSignature(error)
            THEN EnterSimplified(resp)
            ELSE /\ pc' = "done"
                 /\ outcome' = Threw(error)
                 /\ Logged(resp)
                 /\ UNCHANGED globalMediaCache
                 /\ LoopStops
      [] OTHER ->
            /\ pc' = "done"
            /\ outcome' = Threw(error)
            /\ Logged(resp)
            /\ UNCHANGED globalMediaCache
            /\ LoopStops

\* The end of the page loop of the running function, with everything
\* collected in items: the function returns, except fetchProductsSimplified,
\* which goes on to the detail queries of the products it enumerated.
LoopEnds(items, warns) ==
    CASE query = "GetAllMedia" ->
            /\ pc' = "done"
            /\ globalMediaCache' = SetCache(mediaCache')
            /\ outcome' = ReturnedIndex(mediaCache')
      [] query = "GetAllProductsBasic" /\ items # <<>> ->
            /\ pc' = "detail"
            /\ outcome' = NoOutcome
            /\ UNCHANGED globalMediaCache
      [] OTHER ->
            /\ pc' = "done"
            /\ outcome' = [Returned(items) EXCEPT !.warned = warns]
            /\ UNCHANGED globalMediaCache

\* The delay between two pages: setTimeout 300 in fetchAllMedia and in the
\* basic loop of fetchProductsSimplified, sleep(300) in fetchAllPages,
\* fetchAllCollections and fetchProductsForCollection, 500 in
\* fetchAllProducts, fetchMetaobjects, fetchAllFiles and fetchInventoryLevels
\* (delayMs).
PageDelayMs(q) ==
    IF q \in {"GetAllMedia", "GetAllProductsBasic", "GetAllPages", "GetAllCollections",
              "GetCollectionProducts"}
    THEN 300
    ELSE 500

\* A loop that waits after every page.
DelayAfterEveryPage(q, hasNextPage) == PageDelayMs(q)

\* if (hasNextPage) await sleep(...): the last statement of an iteration.
DelayAfterPage(q, hasNextPage) == IF hasNextPage THEN PageDelayMs(q) ELSE 0

\* await sleep(5000) of the retry branch.
backoffMs == 5000

\* One iteration of a page loop whose request is answered with the data of
\* the page after the cursor.
PageData ==
    /\ pc = "page"
    /\ endless => Len(reqLog) < MaxEndlessRequests
    /\ LET nodes == pages[(after % Len(pages)) + 1]
           hasNextPage == endless \/ after + 1 < Len(pages)
           more == GoesOn(query, hasNextPage, Len(reqLog) + 1)
       IN /\ Logged(Response("data", {}, FALSE))
          /\ after' = after + 1
          /\ slept' = DelayAfterPage(query, hasNextPage)
          /\ IF query = "GetAllMedia"
             THEN /\ mediaCache' = AddAllMedia(mediaCache, nodes)
                  /\ collected' = collected
             ELSE /\ collected' = Collect(collected, ItemsOf(query, nodes))
                  /\ mediaCache' = mediaCache
          /\ IF more
             THEN /\ pc' = "page"
                  /\ outcome' = NoOutcome
                  /\ UNCHANGED globalMediaCache
             ELSE LoopEnds(collected',
                           TruncationWarning(query, hasNextPage, Len(reqLog) + 1))
    /\ UNCHANGED <<pages, endless, fn, query, strategy, throttled, detailIdx, enrichedProducts,
                   detailLog, detailFaults, fallbackCause>>

\* One iteration whose request is answered with a data envelope that lacks
\* the listing: fetchProductsForCollection ends its loop (the collection is
\* gone), fetchInventoryLevels ends its loop (hasNextPage ?? false), every
\* other loop throws.
PageNoData ==
    /\ pc = "page"
    /\ LET resp == Response("nodata", {}, FALSE)
       IN IF query \in {"GetCollectionProducts", "GetAllInventoryLevels"}
          THEN /\ pc' = "done"
               /\ outcome' = Returned(collected)
               /\ Logged(resp)
               /\ UNCHANGED globalMediaCache
               /\ LoopStops
          ELSE Thrown(StructureError, resp)

\* One iteration whose request is answered with an errors envelope: the
\* loops that know THROTTLED go to sleep before they repeat the request,
\* every other case throws the GraphQL error.
PageErrors(resp) ==
    /\ pc = "page"
    /\ resp.t = "errors"
    /\ "THROTTLED" \in resp.codes => throttled < MaxThrottle
    /\ IF RetriesOnThrottle(query) /\ IsThrottled(resp)
       THEN /\ pc' = "backoff"
            /\ throttled' = throttled + 1
            /\ Logged(resp)
            /\ slept' = backoffMs
            /\ UNCHANGED <<pages, endless, fn, query, after, collected, mediaCache,
                           globalMediaCache, strategy, detailIdx, enrichedProducts,
                           detailLog, detailFaults, fallbackCause, outcome>>
       ELSE Thrown(GraphQLError(resp), resp)

\* The same retry branch once throttled and reqLog have recorded MaxThrottle
\* throttled answers: the loop goes to sleep again, and nothing in the loop
\* counts the answer.
PageThrottledOn(resp) ==
    /\ pc = "page"
    /\ resp.t = "errors"
    /\ RetriesOnThrottle(query) /\ IsThrottled(resp)
    /\ throttled = MaxThrottle
    /\ pc' = "backoff"
    /\ slept' = backoffMs
    /\ UNCHANGED <<pages, endless, fn, query, after, collected, mediaCache,
                   globalMediaCache, strategy, detailIdx, enrichedProducts, throttled,
                   reqLog, detailLog, detailFaults, fallbackCause, outcome>>

\* await sleep(5000); continue: the sleep is over and the loop repeats the
\* request with the cursor it had.
Backoff ==
    /\ pc = "backoff"
    /\ pc' = "page"
    /\ UNCHANGED <<pages, endless, fn, query, after, collected, mediaCache,
                   globalMediaCache, strategy, detailIdx, enrichedProducts, throttled,
                   reqLog, detailLog, slept, detailFaults, fallbackCause, outcome>>

\* One iteration whose request fails in executeGraphQL.
PageTransport(resp) ==
    /\ pc = "page"
    /\ ExecuteThrows(resp)
    /\ Thrown(ExecuteError(resp), resp)

\* A loop that leaves out the product whose detail query failed.
DropAfterFailure(enriched, product) == enriched

\* enrichedProducts.push(product) of the errors branch and of the catch
\* block of the detail loop: the shallow record is kept.
PushAfterFailure(enriched, product) == Append(enriched, Shallow(product))

\* enrichedProducts.push(enrichedProduct): the record merged with its details.
PushEnriched(enriched, product) == Append(enriched, Enriched(product))

\* setTimeout(resolve, 300) at the end of the try block of the detail loop.
detailDelayMs == 300

\* The delay that passes between the answer to a detail query and the next
\* iteration: the await at the end of the try block is reached on the
\* success path only; `continue` and the catch block go on at once.
DelayAfterDetail(resp) == IF resp.t = "data" THEN detailDelayMs ELSE 0

\* One iteration of the detail loop of fetchProductsSimplified: the detail
\* query of the next product is answered resp.
DetailQuery(resp) ==
    /\ pc = "detail"
    /\ slept' = DelayAfterDetail(resp)
    /\ LET product == collected[detailIdx + 1]
       IN /\ detailLog' = Append(detailLog, product.id)
          /\ enrichedProducts' =
                IF resp.t = "data"
                THEN PushEnriched(enrichedProducts, product)
                ELSE PushAfterFailure(enrichedProducts, product)
    /\ resp.t # "data" => detailFaults < MaxDetailFaults
    /\ detailFaults' = IF resp.t = "data" THEN detailFaults ELSE detailFaults + 1
    /\ detailIdx' = detailIdx + 1
    /\ IF detailIdx' = Len(collected)
       THEN /\ pc' = "done"
            /\ outcome' = Returned(enrichedProducts')
       ELSE /\ pc' = "detail"
            /\ outcome' = NoOutcome
    /\ UNCHANGED <<pages, endless, fn, query, after, collected, mediaCache, globalMediaCache,
                   strategy, throttled, reqLog, fallbackCause>>

\* The caller has its answer; the process is ready for the next call.  Only
\* the global media cache outlives a call.
Return ==
    /\ pc = "done"
    /\ pc' = "idle"
    /\ fn' = "idle"
    /\ query' = "none"
    /\ after' = 0
    /\ collected' = <<>>
    /\ mediaCache' = EmptyMap
    /\ strategy' = "single"
    /\ detailIdx' = 0
    /\ enrichedProducts' = <<>>
    /\ throttled' = 0
    /\ reqLog' = <<>>
    /\ detailLog' = <<>>
    /\ slept' = 0
    /\ detailFaults' = 0
    /\ fallbackCause' = NoEntry
    /\ outcome' = NoOutcome
    /\ UNCHANGED <<pages, endless, globalMediaCache>>

\* ------------------------------------------------------------------------
\* Metafield values and JSON
\* ------------------------------------------------------------------------

\* An element of a parsed JSON array: a string, or something that is not a
\* string (a number, null, an object).
Str(s) == [str |-> TRUE, s |-> s]

NonStr == [str |-> FALSE, s |-> NoStr]

\* The text of a metafield value.  "str": a text that is not JSON, with its
\* segments; "array": the JSON text of an array, canonical (as
\* JSON.stringify writes it) or with other spacing; "json": the JSON text of
\* a value that is not an array; "none": null or undefined.
Text(k, s, elems, canon) == [k |-> k, s |-> s, elems |-> elems, canon |-> canon]

TextStr(s) == Text("str", s, <<>>, TRUE)

TextArray(elems, canon) == Text("array", NoStr, elems, canon)

TextObject == Text("json", NoStr, <<>>, TRUE)

NoText == Text("none", NoStr, <<>>, TRUE)

\* JavaScript truthiness of a value: null and the empty string are falsy.
TextTruthy(t) == t.k # "none" /\ ~(t.k = "str" /\ t.s = EmptyStr)

Numerals == {"42", "7", "9"}

\* JSON.parse(text): a text of digits parses to a number, any other text
\* that is not JSON throws a SyntaxError.
JsonParse(t) ==
    CASE t.k = "array" -> [ok |-> TRUE, isArray |-> TRUE, elems |-> t.elems]
      [] t.k = "json" -> [ok |-> TRUE, isArray |-> FALSE, elems |-> <<>>]
      [] t.k = "str" /\ Len(t.s) = 1 /\ t.s[1] \in Numerals ->
            [ok |-> TRUE, isArray |-> FALSE, elems |-> <<>>]
      [] OTHER -> [ok |-> FALSE, isArray |-> FALSE, elems |-> <<>>]

\* JSON.stringify(array of strings)
JsonStringify(strings) == TextArray([i \in 1..Len(strings) |-> Str(strings[i])], TRUE)

\* text.includes('gid://')
TextIncludesGid(t) ==
    CASE t.k = "str" -> IncludesGid(t.s)
      [] t.k = "array" -> \E i \in 1..Len(t.elems) : t.elems[i].str /\ IncludesGid(t.elems[i].s)
      [] OTHER -> FALSE

\* A metafield as the upstream returns it: no originalValue, not processed.
Metafield(key, type, value) ==
    [key |-> key, type |-> type, value |-> value, originalValue |-> NoText,
     processed |-> FALSE]

\* A product image node.
Image(id, url) == [id |-> id, url |-> url]

\* ------------------------------------------------------------------------
\* processMetafields
\* ------------------------------------------------------------------------

\* One iteration of productImages.forEach: the full id and the id without
\* 'gid://', whatever the url is.
AddImage(m, img) ==
    IF ~Truthy(img.id) THEN m
    ELSE MapSet(MapSet(m, img.id, img.url), StripGid(img.id), img.url)

RECURSIVE AddAllImages(_, _)
AddAllImages(m, imgs) ==
    IF imgs = <<>> THEN m
    ELSE AddAllImages(AddImage(m, Head(imgs)), Tail(imgs))

\* The mediaMap of processMetafields: the product's images, then its media.
MediaMap(productImages, productMedia) ==
    AddAllMedia(AddAllImages(EmptyMap, productImages), productMedia)

\* The first truthy value of a sequence of lookups, NoStr when none is.
RECURSIVE FirstTruthy(_)
FirstTruthy(vals) ==
    IF vals = <<>> THEN NoStr
    ELSE IF Truthy(Head(vals)) THEN Head(vals)
    ELSE FirstTruthy(Tail(vals))

\* A chain of lookups that asks the media map in its three forms before it
\* asks the cache.
LookupLocalFirst(mediaMap, cache, id) ==
    FirstTruthy(
        <<MapGet(mediaMap, id), MapGet(mediaMap, StripGid(id)), MapGet(mediaMap, NumericId(id))>>
        \o (IF cache.set
            THEN <<MapGet(cache.map, id), MapGet(cache.map, StripGid(id)),
                   MapGet(cache.map, NumericId(id))>>
            ELSE <<>>))

\* A chain of lookups that gives the id back when no lookup hits.
LookupOrId(mediaMap, cache, id) ==
    FirstTruthy(
        <<MapGet(mediaMap, id)>>
        \o (IF cache.set
            THEN <<MapGet(cache.map, id), MapGet(cache.map, StripGid(id)),
                   MapGet(cache.map, NumericId(id))>>
            ELSE <<>>)
        \o <<MapGet(mediaMap, StripGid(id)), MapGet(mediaMap, NumericId(id)), id>>)

\* A chain of lookups that never asks for the last segment of the id.
LookupNoNumeric(mediaMap, cache, id) ==
    FirstTruthy(
        <<MapGet(mediaMap, id)>>
        \o (IF cache.set
            THEN <<MapGet(cache.map, id), MapGet(cache.map, StripGid(id))>>
            ELSE <<>>)
        \o <<MapGet(mediaMap, StripGid(id))>>)

\* The chain of lookups of one id: the media map with the id as it is; then,
\* when there is a cache, the cache with the id as it is, without 'gid://'
\* and with its last segment; then the media map without 'gid://' and with
\* the last segment.  NoStr when no lookup gives a url.
Lookup(mediaMap, cache, id) ==
    FirstTruthy(
        <<MapGet(mediaMap, id)>>
        \o (IF cache.set
            THEN <<MapGet(cache.map, id), MapGet(cache.map, StripGid(id)),
                   MapGet(cache.map, NumericId(id))>>
            ELSE <<>>)
        \o <<MapGet(mediaMap, StripGid(id)), MapGet(mediaMap, NumericId(id))>>)

\* imageIds.map(...): the url of each id, the id itself when none is found.
ResolveList(mediaMap, cache, elems) ==
    [i \in 1..Len(elems) |->
        IF Truthy(Lookup(mediaMap, cache, elems[i].s))
        THEN Lookup(mediaMap, cache, elems[i].s)
        ELSE elems[i].s]

\* A list branch in which a parsed value that is no array is mapped as an
\* empty array.
ListThrowsUnlessMapped(value) ==
    LET parsed == JsonParse(value)
    IN \/ ~parsed.ok
       \/ \E i \in 1..Len(parsed.elems) : ~parsed.elems[i].str

\* The list branch throws (and its catch returns the metafield as it is)
\* when the value does not parse, when the parsed value has no map method,
\* and when an element has no replace method.
ListThrows(value) ==
    LET parsed == JsonParse(value)
    IN \/ ~parsed.ok
       \/ ~parsed.isArray
       \/ \E i \in 1..Len(parsed.elems) : ~parsed.elems[i].str

\* A result that keeps the re-serialised array of ids as originalValue.
ProcessedListNormalised(metafield, urls) ==
    [metafield EXCEPT !.originalValue = [metafield.value EXCEPT !.canon = TRUE],
                      !.value = JsonStringify(urls),
                      !.processed = TRUE]

\* The result of a list that resolved: the urls as JSON text, the value of
\* the input kept as originalValue.
ProcessedList(metafield, urls) ==
    [metafield EXCEPT !.originalValue = metafield.value,
                      !.value = JsonStringify(urls),
                      !.processed = TRUE]

ProcessedScalar(metafield, url) ==
    [metafield EXCEPT !.originalValue = metafield.value,
                      !.value = TextStr(url),
                      !.processed = TRUE]

\* A callback that looks up the value of every metafield, whatever its type.
ProcessAnyType(metafield, mediaMap, cache) ==
    IF metafield.value.k = "str" /\ Truthy(Lookup(mediaMap, cache, metafield.value.s))
    THEN ProcessedScalar(metafield, Lookup(mediaMap, cache, metafield.value.s))
    ELSE metafield

\* The callback of metafields.map.  cache is externalMediaCache ||
\* globalMediaCache || null.
ProcessOne(metafield, mediaMap, cache) ==
    IF metafield.type = "list.file_reference" /\ TextTruthy(metafield.value)
    THEN IF ListThrows(metafield.value)
         THEN metafield
         ELSE ProcessedList(metafield,
                            ResolveList(mediaMap, cache, JsonParse(metafield.value).elems))
    ELSE IF metafield.type = "file_reference" /\ TextTruthy(metafield.value)
    THEN IF Truthy(Lookup(mediaMap, cache, metafield.value.s))
         THEN ProcessedScalar(metafield, Lookup(mediaMap, cache, metafield.value.s))
         ELSE metafield
    ELSE metafield

\* externalMediaCache || globalMediaCache || null
CacheUsed(externalMediaCache, global) ==
    IF externalMediaCache.set THEN externalMediaCache ELSE global

\* processMetafields(metafields, productImages, productMedia, externalMediaCache)
\* with the global media cache being global.
ProcessMetafields(metafields, productImages, productMedia, externalMediaCache, global) ==
    [i \in 1..Len(metafields) |->
        ProcessOne(metafields[i], MediaMap(productImages, productMedia),
                   CacheUsed(externalMediaCache, global))]

\* ------------------------------------------------------------------------
\* fetchMediaById and the direct-fetch pass of processMetafieldsWithFetch
\* ------------------------------------------------------------------------

\* The media the upstream knows by id (its node(id:) field).
UpstreamMedia == {NodeA, NodeB, NodeC, NodeD}

KnownTo(id) == {n \in UpstreamMedia : n.id = id}

\* What fetchMediaById makes of the answer to its request: null (found
\* FALSE) on a thrown error, an errors envelope, no data or no node, and on
\* a node without image, sources and embedded url; otherwise the node's url,
\* where a node with an image gives the image's url whatever it is.
FetchedNull == [found |-> FALSE, url |-> NoStr, threw |-> FALSE]

\* { id: media.id, url }
FetchedUrl(url) == [found |-> TRUE, url |-> url, threw |-> FALSE]

\* A fetchMediaById whose request is made outside a try block.
FetchedUncaught(resp, id) ==
    IF ExecuteThrows(resp) THEN [found |-> FALSE, url |-> NoStr, threw |-> TRUE]
    ELSE IF resp.t # "data" \/ KnownTo(id) = {} THEN FetchedNull
    ELSE LET media == CHOOSE n \in KnownTo(id) : TRUE
         IN IF media.image # NoStr THEN FetchedUrl(media.image)
            ELSE IF Len(media.sources) > 0 THEN FetchedUrl(media.sources[1])
            ELSE IF Truthy(media.embeddedUrl) THEN FetchedUrl(media.embeddedUrl)
            ELSE FetchedNull

\* The try block of fetchMediaById with its catch block: every error the
\* request throws is caught and null is returned.
Fetched(resp, id) ==
    IF resp.t # "data" \/ KnownTo(id) = {} THEN FetchedNull
    ELSE LET media == CHOOSE n \in KnownTo(id) : TRUE
         IN IF media.image # NoStr THEN FetchedUrl(media.image)
            ELSE IF Len(media.sources) > 0 THEN FetchedUrl(media.sources[1])
            ELSE IF Truthy(media.embeddedUrl) THEN FetchedUrl(media.embeddedUrl)
            ELSE FetchedNull

\* fetchMediaById answers from the global cache, without a request, when the
\* cache holds a url under the id.
AnsweredFromGlobal(global, id) ==
    global.set /\ MapHas(global.map, id) /\ Truthy(MapGet(global.map, id))

\* The indices of needsDirectFetch: processed file references whose value
\* still contains 'gid://'.
NeedsDirectFetch(processed) ==
    {i \in 1..Len(processed) :
        /\ processed[i].processed
        /\ processed[i].type \in {"file_reference", "list.file_reference"}
        /\ TextIncludesGid(processed[i].value)}

\* A place of the pass at which a url is looked for: field idx, element
\* elem of its list (0 for a scalar field), and the id to fetch.
Site(idx, elem, id) == [idx |-> idx, elem |-> elem, id |-> id]

\* metafield.originalValue || metafield.value
OriginalOf(metafield) ==
    IF TextTruthy(metafield.originalValue) THEN metafield.originalValue ELSE metafield.value

RECURSIVE ListSites(_, _, _)
ListSites(idx, metafield, i) ==
    LET originalIds == JsonParse(OriginalOf(metafield)).elems
        currentUrls == JsonParse(metafield.value).elems
    IN IF i > Len(originalIds) THEN <<>>
       ELSE (IF Truthy(currentUrls[i].s) /\ IncludesGid(currentUrls[i].s)
             THEN <<Site(idx, i, originalIds[i].s)>>
             ELSE <<>>)
            \o ListSites(idx, metafield, i + 1)

FieldSites(idx, metafield) ==
    IF metafield.type = "file_reference"
    THEN <<Site(idx, 0, OriginalOf(metafield).s)>>
    ELSE ListSites(idx, metafield, 1)

\* The sites of the fields of needsDirectFetch, in the order of the pass.
RECURSIVE SitesFrom(_, _)
SitesFrom(processed, idx) ==
    IF idx > Len(processed) THEN <<>>
    ELSE (IF idx \in NeedsDirectFetch(processed)
          THEN FieldSites(idx, processed[idx])
          ELSE <<>>)
         \o SitesFrom(processed, idx + 1)

\* A url found for a site replaces the value (scalar) or the element (list)
\* of the field in finalProcessed; originalValue and processed are kept.
WriteSite(fields, site, url) ==
    IF site.elem = 0
    THEN [fields EXCEPT ![site.idx].value = TextStr(url)]
    ELSE [fields EXCEPT ![site.idx].value.elems[site.elem] = Str(url)]

\* ------------------------------------------------------------------------
\* transformDataForLLM
\* ------------------------------------------------------------------------

\* Largest number of products given to one transform run.
MaxProducts == 2

IdA == Gid("MediaImage", "42")

IdB == Gid("Video", "42")

IdC == Gid("ExternalVideo", "7")

IdD == Gid("MediaImage", "9")

\* An id no listing and no node of the upstream knows.
IdX == Gid("MediaImage", "1")

FileRef(key, id) == Metafield(key, "file_reference", TextStr(id))

ListRef(key, ids, canon) ==
    Metafield(key, "list.file_reference", TextArray([i \in 1..Len(ids) |-> Str(ids[i])], canon))

PlainField(key, s) == Metafield(key, "single_line_text_field", TextStr(s))

Variant(id, metafields) == [id |-> id, metafields |-> metafields]

Product(id, metafields, images, media, variants) ==
    [id |-> id, metafields |-> metafields, images |-> images, media |-> media,
     variants |-> variants]

\* The products a transform run may be given.
ProductChoices ==
    {Product("p1", <<FileRef("hero", IdB), PlainField("note", IdA)>>, <<>>, <<>>, <<>>),
     Product("p2", <<ListRef("gallery", <<IdA, IdB>>, FALSE)>>, <<>>, <<NodeA>>,
             <<Variant("v1", <<ListRef("swatch", <<IdB>>, TRUE)>>)>>),
     Product("p3", <<FileRef("icon", <<"42">>), ListRef("docs", <<IdC, IdX, IdC>>, TRUE)>>,
             <<Image(Gid("ProductImage", "3"), Url("img"))>>, <<>>,
             <<Variant("v2", <<FileRef("pic", IdX)>>), Variant("v3", <<>>)>>),
     Product("p4", <<Metafield("bad", "list.file_reference", TextStr(<<"oops">>)),
                     ListRef("many", <<IdD, IdB>>, TRUE)>>, <<>>, <<>>, <<>>)}

ProductLists == UNION {[1..n -> ProductChoices] : n \in 1..MaxProducts}

\* The media listings of the upstream in a transform run.
TransformCatalogs == {c \in Catalogs : Len(c) <= 2}

\* The media listings from which the global index of a single call was built.
ProcessCatalogs == {c \in Catalogs : Len(c) = 1}

\* ------------------------------------------------------------------------
\* executeGraphQL
\* ------------------------------------------------------------------------

VARIABLES
    creds,           \* whether SHOPIFY_SHOP_URL and SHOPIFY_ACCESS_TOKEN are set
    exec,            \* the call of executeGraphQL being made
    byId,            \* the call of fetchMediaById made on its own
    cacheLog,        \* the latest call of the in-memory Cache and the sets so far
    apiKeyEnv,       \* process.env.API_KEY, "" when it is not set
    served,          \* the routes this process is asked for
    memCache,        \* the Map of the in-memory Cache singleton
    redis,           \* what the Redis server holds under 'shopify_products_all'
    now,             \* the clock in seconds: Date.now() is 1000 times this
    shop,            \* the version of the data the upstream serves
    req,             \* the request a loader is serving
    tasks,           \* the fetches the loader has called and not yet got back
    reply              \* the response of the loader

routeVars == <<apiKeyEnv, served, memCache, redis, now, shop, req, tasks, reply>>

serverVars == <<creds, exec, byId, cacheLog, routeVars>>

\* What a call of executeGraphQL gave its caller: the parsed envelope or a
\* thrown error.
ExecResult(status, envelope, error) ==
    [status |-> status, envelope |-> envelope, error |-> error]

\* A call of executeGraphQL(query, {after}): sent counts the transport
\* requests it has made, answer is what the transport answered.
Exec(at, q, cursor, sent, answer, result) ==
    [pc |-> at, query |-> q, after |-> cursor, sent |-> sent, answer |-> answer,
     result |-> result]

ExecIdle == Exec("idle", "none", 0, 0, NoResponse, ExecResult("none", NoResponse, NoErr))

\* new Error('Shopify credentials not found in environment variables')
CredentialsError == Err("credentials", {}, FALSE)

\* if (!SHOPIFY_SHOP_URL || !SHOPIFY_ACCESS_TOKEN)
CredentialsMissing(c) == ~c.shopUrl \/ ~c.token

\* The body of a response.  items stands for the transformed records: the
\* version of the upstream data they were made from.
Body(success, items, fromCache, timestamp, error) ==
    [success |-> success, items |-> items, fromCache |-> fromCache,
     timestamp |-> timestamp, error |-> error]

\* null: what a cache answers when it has nothing.
NoData == Body(FALSE, 0, FALSE, 0, "null")

\* The responseData a loader builds from what it fetched.
ResponseData(items, timestamp) == Body(TRUE, items, FALSE, timestamp, "")

\* { success: false, error }
Failure(error) == Body(FALSE, 0, FALSE, 0, error)

Res(status, body) == [status |-> status, body |-> body]

NoRes == Res(0, NoData)

\* The keys of the in-memory cache.
CacheKeys ==
    {"shopify_products_data", "shopify_pricelists_data", "shopify_pages_data",
     "shopify_collections_data", "shopify_redirects_data", "shopify_metaobjects"}

\* An entry of the Map of Cache, and the absence of one.
CacheEntry(data, expiresAt) == [present |-> TRUE, data |-> data, expiresAt |-> expiresAt]

Absent == [present |-> FALSE, data |-> NoData, expiresAt |-> 0]

\* A fetch a loader has called: sent counts its upstream queries so far.
Task(f, at, sent) == [fn |-> f, pc |-> at, sent |-> sent]

NoTask == Task("none", "none", 0)

\* A loader awaits two fetches at most (Promise.all of two).
Slots == {1, 2}

NoTasks == [i \in Slots |-> NoTask]

\* No request is being served.  asked tells whether the request has made an
\* upstream query; inflight and peak count its upstream queries that are
\* awaited now, and the most that were awaited at one time; builds counts
\* the media listings started from the first page.  memBefore and
\* redisBefore are the caches as they were when the request came in; looked
\* tells whether the loader has read its cache, found what was there and not
\* expired at that time; readFailed and writeFailed tell of a failed command
\* of the Redis client.
ReqIdle ==
    [route |-> "none", apiKey |-> "", cache |-> FALSE, refresh |-> FALSE, type |-> TRUE,
     pc |-> "idle", items |-> 0, data |-> NoData, asked |-> FALSE,
     inflight |-> 0,
     peak |-> 0, builds |-> 0, memBefore |-> [k \in CacheKeys |-> Absent],
     redisBefore |-> NoData, looked |-> FALSE, found |-> NoData, readFailed |-> FALSE,
     writeFailed |-> FALSE]

\* No loader runs: nothing is cached and no API key is asked for.
RoutesIdle ==
    /\ apiKeyEnv = ""
    /\ served = {}
    /\ memCache = [k \in CacheKeys |-> Absent]
    /\ redis = NoData
    /\ now = 0
    /\ shop = 1
    /\ req = ReqIdle
    /\ tasks = NoTasks
    /\ reply = NoRes

\* What is known of the sets of one key: whether a set of the key was made
\* and no delete of the key and no clear came after it, and the data, the
\* time and the ttlSeconds of that set.
LatestSet(data, at, ttlSeconds) ==
    [set |-> TRUE, data |-> data, at |-> at, ttlSeconds |-> ttlSeconds]

NoSet == [set |-> FALSE, data |-> NoData, at |-> 0, ttlSeconds |-> 0]

\* The latest call of a method of Cache: the method, its key, the time of
\* the call and what it returned, with the latest set of every key.
CacheLog(op, key, at, got, latest) ==
    [op |-> op, key |-> key, at |-> at, got |-> got, latest |-> latest]

NoCacheLog == CacheLog("none", "", 0, NoData, [k \in CacheKeys |-> NoSet])

\* A call of fetchMediaById(mediaId): sent counts its requests, answer is
\* what its request was answered, result what the caller got.
ById(at, mediaId, sent, answer, result) ==
    [pc |-> at, id |-> mediaId, sent |-> sent, answer |-> answer, result |-> result]

ByIdIdle == ById("idle", NoStr, 0, NoResponse, FetchedNull)

\* The process serves no request and makes no call; its credentials are set.
ServerIdle ==
    /\ creds = [shopUrl |-> TRUE, token |-> TRUE]
    /\ exec = ExecIdle
    /\ byId = ByIdIdle
    /\ cacheLog = NoCacheLog
    /\ RoutesIdle

\* executeGraphQL is called: without credentials it throws at once, with
\* them it makes its one call of fetch and awaits the answer.
ExecuteCall(q, a) ==
    /\ exec.pc = "idle"
    /\ exec' = IF CredentialsMissing(creds)
               THEN Exec("done", q, a, 0, NoResponse,
                         ExecResult("threw", NoResponse, CredentialsError))
               ELSE Exec("sent", q, a, 1, NoResponse, exec.result)
    /\ UNCHANGED <<creds, byId, cacheLog, routeVars>>

\* The transport answers: fetch rejects or the status is no success, and
\* executeGraphQL throws; any other answer is returned as response.json().
ExecuteAnswer(resp) ==
    /\ exec.pc = "sent"
    /\ exec' = [exec EXCEPT
                  !.pc = "done",
                  !.answer = resp,
                  !.result = IF ExecuteThrows(resp)
                             THEN ExecResult("threw", NoResponse, ExecuteError(resp))
                             ELSE ExecResult("returned", resp, NoErr)]
    /\ UNCHANGED <<creds, byId, cacheLog, routeVars>>

\* The caller has the result.
ExecuteReturn ==
    /\ exec.pc = "done"
    /\ exec' = ExecIdle
    /\ UNCHANGED <<creds, byId, cacheLog, routeVars>>

\* fetchMediaById(mediaId) is called: it answers from the global cache when
\* that holds a url under the id; else it calls executeGraphQL inside its
\* try block, which throws at once without credentials.
MediaByIdCall(mediaId) ==
    /\ byId.pc = "idle"
    /\ byId' = IF AnsweredFromGlobal(globalMediaCache, mediaId)
               THEN ById("done", mediaId, 0, NoResponse,
                         FetchedUrl(MapGet(globalMediaCache.map, mediaId)))
               ELSE IF CredentialsMissing(creds)
               THEN ById("done", mediaId, 0, NoResponse, FetchedNull)
               ELSE ById("waiting", mediaId, 1, NoResponse, FetchedNull)
    /\ UNCHANGED <<creds, exec, cacheLog, routeVars>>

\* The request of fetchMediaById is answered.
MediaByIdAnswer(resp) ==
    /\ byId.pc = "waiting"
    /\ byId' = [byId EXCEPT !.pc = "done", !.answer = resp,
                            !.result = Fetched(resp, byId.id)]
    /\ UNCHANGED <<creds, exec, cacheLog, routeVars>>

\* The caller has the result.
MediaByIdReturn ==
    /\ byId.pc = "done"
    /\ byId' = ByIdIdle
    /\ UNCHANGED <<creds, exec, cacheLog, routeVars>>

VARIABLES
    products,        \* the products given to transformDataForLLM
    tpc,             \* "idle", "media" (awaiting fetchAllMedia), "fetching", "done"
    pi,              \* the product being transformed
    vi,              \* its variant being transformed, 0 for the product itself
    out,             \* the records made so far
    sites,           \* what is left of the direct-fetch pass of the current call
    initialProcessed, \* the initialProcessed of the current call
    finalProcessed,  \* the finalProcessed of the current call
    localMediaCache, \* the localMediaCache of the current call
    fetchLog,        \* the requests of fetchMediaById: the id and the url it got
    buildLog,        \* the page requests of the fetchAllMedia of this run
    runs             \* the transform runs that call fetchAllMedia side by side

transformVars ==
    <<products, runs, serverVars, tpc, pi, vi, out, sites, initialProcessed, finalProcessed,
      localMediaCache, fetchLog, buildLog>>

\* The metafields one call of processMetafieldsWithFetch is given.
FieldsOfCall(p, v) ==
    IF v = 0 THEN products[p].metafields ELSE products[p].variants[v].metafields

\* The state of a run between two requests.
Run(p, v, o, s, i, f, c, d) ==
    [pi |-> p, vi |-> v, out |-> o, sites |-> s, initial |-> i, final |-> f,
     cache |-> c, done |-> d]

\* The record of a product joins the output with its processed metafields;
\* the processed metafields of a variant join the record of its product.
Recorded(o, p, v, fields) ==
    IF v = 0
    THEN Append(o, [id |-> products[p].id, metafields |-> fields, variants |-> <<>>])
    ELSE [o EXCEPT ![p].variants =
            Append(@, [id |-> products[p].variants[v].id, metafields |-> fields])]

\* A pass that is made whatever caches there are.
SitesOfCallAlways(processed, external, global) == SitesFrom(processed, 1)

\* The direct-fetch pass is made only when neither the cache given to the
\* call nor the global cache is there.
SitesOfCall(processed, external, global) ==
    IF ~external.set /\ ~global.set THEN SitesFrom(processed, 1) ELSE <<>>

\* processMetafieldsWithFetch is called for product p (v = 0) or its
\* variant v, with globalMediaCache || undefined as its cache.
CallStarted(p, v, o, global) ==
    LET initial == ProcessMetafields(FieldsOfCall(p, v), products[p].images,
                                     products[p].media, global, global)
    IN Run(p, v, o, SitesOfCall(initial, global, global), initial, initial, EmptyMap, FALSE)

\* The run goes on without the upstream: sites answered by the local cache
\* are written, a call whose pass is over returns and the next call starts,
\* until a site needs a request or the last call has returned.
RECURSIVE Settle(_, _)
Settle(r, global) ==
    IF r.done THEN r
    ELSE IF r.sites # <<>>
    THEN LET site == Head(r.sites)
             mediaUrl == MapGet(r.cache, site.id)
         IN IF Truthy(mediaUrl)
            THEN Settle([r EXCEPT !.final = WriteSite(r.final, site, mediaUrl),
                                  !.sites = Tail(r.sites)], global)
            ELSE IF AnsweredFromGlobal(global, site.id)
            THEN LET url == MapGet(global.map, site.id)
                 IN Settle([r EXCEPT !.final = WriteSite(r.final, site, url),
                                     !.cache = MapSet(r.cache, site.id, url),
                                     !.sites = Tail(r.sites)], global)
            ELSE r
    ELSE LET o == Recorded(r.out, r.pi, r.vi, r.final)
         IN IF r.vi < Len(products[r.pi].variants)
            THEN Settle(CallStarted(r.pi, r.vi + 1, o, global), global)
            ELSE IF r.pi < Len(products)
            THEN Settle(CallStarted(r.pi + 1, 0, o, global), global)
            ELSE Run(r.pi, r.vi, o, <<>>, r.initial, r.final, EmptyMap, TRUE)

RunBecomes(r) ==
    /\ pi' = r.pi
    /\ vi' = r.vi
    /\ out' = r.out
    /\ sites' = r.sites
    /\ initialProcessed' = r.initial
    /\ finalProcessed' = r.final
    /\ localMediaCache' = r.cache
    /\ tpc' = IF r.done THEN "done" ELSE "fetching"

\* Two runs of transformDataForLLM in one process.  The event loop runs one
\* of them at a time, from one await to the next.
Runs == {1, 2}

\* A run that has not called fetchAllMedia yet.  mediaCache is the Map its
\* build fills, index the Map fetchAllMedia returned to it, how the way it
\* got it, used the values of globalMediaCache it read when it resolved
\* references.
RunIdle ==
    [pc |-> "idle", after |-> 0, mediaCache |-> EmptyMap, index |-> EmptyMap,
     how |-> "none", used |-> {}]

TransformIdle ==
    /\ tpc = "idle"
    /\ pi = 0
    /\ vi = 0
    /\ out = <<>>
    /\ sites = <<>>
    /\ initialProcessed = <<>>
    /\ finalProcessed = <<>>
    /\ localMediaCache = EmptyMap
    /\ fetchLog = <<>>
    /\ buildLog = <<>>
    /\ runs = [r \in Runs |-> RunIdle]

\* transformDataForLLM(products) is called: it awaits fetchAllMedia first.
TransformStart ==
    /\ tpc = "idle"
    /\ StartFetch("fetchAllMedia")
    /\ tpc' = "media"
    /\ UNCHANGED <<products, runs, serverVars, pi, vi, out, sites, initialProcessed, finalProcessed,
                   localMediaCache, fetchLog, buildLog>>

\* fetchAllMedia has returned: the loop over the products runs up to its
\* first request to the upstream, or to its end.
TransformResume ==
    /\ tpc = "media"
    /\ Return
    /\ RunBecomes(Settle(CallStarted(1, 0, <<>>, globalMediaCache), globalMediaCache))
    /\ buildLog' = reqLog
    /\ UNCHANGED <<products, runs, serverVars, fetchLog>>

\* fetchMediaById asks the upstream for the id of the current site and is
\* answered resp; the run goes on up to its next request.
DirectFetch(resp) ==
    /\ tpc = "fetching"
    /\ LET site == Head(sites)
           mediaData == Fetched(resp, site.id)
           cache == IF mediaData.found
                    THEN MapSet(localMediaCache, site.id, mediaData.url)
                    ELSE localMediaCache
           final == IF mediaData.found /\ Truthy(mediaData.url)
                    THEN WriteSite(finalProcessed, site, mediaData.url)
                    ELSE finalProcessed
       IN /\ fetchLog' = Append(fetchLog, [id |-> site.id, url |-> mediaData.url])
          /\ RunBecomes(Settle(Run(pi, vi, out, Tail(sites), initialProcessed, final,
                                   cache, FALSE),
                               globalMediaCache))
    /\ UNCHANGED <<products, runs, serverVars, buildLog>>
    /\ UNCHANGED fetchVars

\* The caller has its records; the process is ready for the next run.
TransformReturn ==
    /\ tpc = "done"
    /\ tpc' = "idle"
    /\ pi' = 0
    /\ vi' = 0
    /\ out' = <<>>
    /\ sites' = <<>>
    /\ initialProcessed' = <<>>
    /\ finalProcessed' = <<>>
    /\ localMediaCache' = EmptyMap
    /\ fetchLog' = <<>>
    /\ buildLog' = <<>>
    /\ UNCHANGED <<products, runs, serverVars>>
    /\ UNCHANGED fetchVars

\* ------------------------------------------------------------------------
\* processMetafields on its own
\* ------------------------------------------------------------------------

\* Largest number of metafields given to one call of processMetafields.
MaxFields == 2

MetafieldChoices ==
    {FileRef("f", IdA), FileRef("f", <<"42">>), FileRef("f", IdB), FileRef("f", IdX),
     Metafield("f", "file_reference", NoText),
     ListRef("l", <<IdA, IdB>>, FALSE), ListRef("l", <<IdB, <<"42">>, IdX>>, TRUE),
     ListRef("l", <<>>, TRUE),
     Metafield("l", "list.file_reference", TextArray(<<Str(IdA), NonStr>>, TRUE)),
     Metafield("l", "list.file_reference", TextObject),
     Metafield("l", "list.file_reference", TextStr(<<"oops">>)),
     Metafield("l", "list.file_reference", TextStr(<<"42">>)),
     PlainField("t", IdA)}

MetafieldLists == UNION {[1..n -> MetafieldChoices] : n \in 1..MaxFields}

ImageChoices ==
    {<<>>, <<Image(IdA, Url("img"))>>, <<Image(Gid("ProductImage", "42"), NoStr)>>}

\* The media of a product: its own urls differ from the urls of the listing.
MediaChoices ==
    {<<>>, <<Node(IdA, Url("la"), <<>>, NoStr)>>, <<Node(IdB, NoStr, <<Url("lb")>>, NoStr)>>}

\* The one product of a call made on its own.
ProcessInputs ==
    {<<Product("p", m, i, d, <<>>)>> :
        m \in MetafieldLists, i \in ImageChoices, d \in MediaChoices}

vars == <<fetchVars, transformVars>>

\* processMetafieldsWithFetch is called on the metafields, images and media
\* of the product, as transformDataForLLM calls it, and runs up to its first
\* request to the upstream, or returns.
ProcessCall ==
    /\ tpc = "idle"
    /\ RunBecomes(Settle(CallStarted(1, 0, <<>>, globalMediaCache), globalMediaCache))
    /\ UNCHANGED <<products, runs, serverVars, fetchLog, buildLog>>
    /\ UNCHANGED fetchVars

\* ------------------------------------------------------------------------
\* Specifications
\* ------------------------------------------------------------------------

FetchIdle ==
    /\ fn = "idle"
    /\ query = "none"
    /\ pc = "idle"
    /\ after = 0
    /\ collected = <<>>
    /\ mediaCache = EmptyMap
    /\ strategy = "single"
    /\ detailIdx = 0
    /\ enrichedProducts = <<>>
    /\ throttled = 0
    /\ reqLog = <<>>
    /\ detailLog = <<>>
    /\ slept = 0
    /\ detailFaults = 0
    /\ fallbackCause = NoEntry
    /\ outcome = NoOutcome

\* The fetches of the service, called one after the other.
Init ==
    /\ pages \in Catalogs
    /\ endless = FALSE
    /\ globalMediaCache = NullCache
    /\ FetchIdle
    /\ products = <<>>
    /\ TransformIdle
    /\ ServerIdle

\* The fetches other than fetchAllMedia neither read nor write the global
\* media cache, so they are explored from the process state in which it is
\* not set.
Next ==
    \/ \E f \in Fetches :
          /\ globalMediaCache.set => f = "fetchAllMedia"
          /\ StartFetch(f)
          /\ UNCHANGED transformVars
    \/ PageData /\ UNCHANGED transformVars
    \/ PageNoData /\ UNCHANGED transformVars
    \/ \E resp \in Responses : PageErrors(resp) /\ UNCHANGED transformVars
    \/ Backoff /\ UNCHANGED transformVars
    \/ \E resp \in Responses : PageTransport(resp) /\ UNCHANGED transformVars
    \/ \E resp \in Responses : DetailQuery(resp) /\ UNCHANGED transformVars
    \/ Return /\ UNCHANGED transformVars

Spec == Init /\ [][Next]_vars

\* Runs of transformDataForLLM in one process.
InitTransform ==
    /\ pages \in TransformCatalogs
    /\ endless = FALSE
    /\ globalMediaCache = NullCache
    /\ FetchIdle
    /\ products \in ProductLists
    /\ TransformIdle
    /\ ServerIdle

NextTransform ==
    \/ TransformStart
    \/ tpc = "media" /\ PageData /\ UNCHANGED transformVars
    \/ tpc = "media" /\ PageNoData /\ UNCHANGED transformVars
    \/ \E resp \in Responses :
          tpc = "media" /\ PageErrors(resp) /\ UNCHANGED transformVars
    \/ \E resp \in Responses :
          tpc = "media" /\ PageTransport(resp) /\ UNCHANGED transformVars
    \/ TransformResume
    \/ \E resp \in Responses : DirectFetch(resp)
    \/ TransformReturn

SpecTransform == InitTransform /\ [][NextTransform]_vars

\* What a call of executeGraphQL on its own leaves alone.
execFrame ==
    <<fetchVars, products, runs, tpc, pi, vi, out, sites, initialProcessed,
      finalProcessed, localMediaCache, fetchLog, buildLog>>

\* The cursors a call may carry.
Cursors == 0..MaxPages

\* Calls of executeGraphQL, one after the other, in processes with and
\* without credentials.
InitExecute ==
    /\ pages \in {c \in Catalogs : Len(c) = 1}
    /\ endless = FALSE
    /\ globalMediaCache = NullCache
    /\ FetchIdle
    /\ products = <<>>
    /\ TransformIdle
    /\ creds \in [shopUrl : BOOLEAN, token : BOOLEAN]
    /\ exec = ExecIdle
    /\ byId = ByIdIdle
    /\ cacheLog = NoCacheLog
    /\ RoutesIdle

NextExecute ==
    \/ \E f \in Fetches, a \in Cursors : ExecuteCall(QueryOf(f), a) /\ UNCHANGED execFrame
    \/ \E resp \in Responses : ExecuteAnswer(resp) /\ UNCHANGED execFrame
    \/ ExecuteReturn /\ UNCHANGED execFrame

SpecExecute == InitExecute /\ [][NextExecute]_vars

\* ------------------------------------------------------------------------
\* The route loaders
\* ------------------------------------------------------------------------

\* The most upstream queries one fetch makes.
MaxTaskQueries == 2

\* The versions the upstream data goes through.
MaxVersion == 2

\* The ticks of the clock.
MaxTicks == 2

\* const DEFAULT_CACHE_TTL = 60 * 60 of the products loader that caches in
\* memory; the default ttlSeconds of Cache.set is the same.
DEFAULT_CACHE_TTL == 60 * 60

\* The clock advances by that time to live: an entry of the products is
\* at its expiry one tick after it was set, and past it after two.
TickSeconds == DEFAULT_CACHE_TTL

\* The loaders: "products" is the loader of api.products.ts (Redis),
\* "productsPlain" and "productsMemory" the two loaders of the same route
\* that fetch products and inventory together, without a cache and with the
\* in-memory one; "search" and "identifier" read what the latter stores.
ProductRoutes == {"products", "productsPlain", "productsMemory"}

ReaderRoutes == {"search", "identifier"}

ListingRoutes ==
    {"pricelists", "files", "pages", "collections", "redirects", "metaobjects",
     "metaobjectsPlain"}

Routes == ProductRoutes \cup ReaderRoutes \cup ListingRoutes

\* Where a loader keeps its response.
StoreOf(route) ==
    CASE route = "products" -> "redis"
      [] route \in {"productsMemory", "pricelists", "pages", "collections", "redirects",
                    "metaobjects"} -> "memory"
      [] route \in ReaderRoutes -> "reader"
      [] OTHER -> "none"

\* The key of the in-memory cache a loader uses.
KeyOf(route) ==
    CASE route \in {"productsMemory", "search", "identifier"} -> "shopify_products_data"
      [] route = "pricelists" -> "shopify_pricelists_data"
      [] route = "pages" -> "shopify_pages_data"
      [] route = "collections" -> "shopify_collections_data"
      [] route = "redirects" -> "shopify_redirects_data"
      [] OTHER -> "shopify_metaobjects"

\* DEFAULT_CACHE_TTL of each loader, in seconds.
TtlOf(route) ==
    CASE route = "productsMemory" -> DEFAULT_CACHE_TTL
      [] route \in {"pricelists", "pages", "redirects"} -> 60 * 60 * 6
      [] route = "collections" -> 60 * 60 * 24 * 30 * 12
      [] OTHER -> 60 * 60

\* The fetch of a loader that makes one listing.
FetchOf(route) ==
    CASE route = "pricelists" -> "fetchAllPriceLists"
      [] route = "files" -> "fetchAllFiles"
      [] route = "pages" -> "fetchAllPages"
      [] route = "collections" -> "fetchAllCollections"
      [] route = "redirects" -> "fetchAllRedirects"
      [] OTHER -> "fetchMetaobjects"

\* The loaders of the metaobjects answer 400 without a type parameter.
NeedsType(route) == route \in {"metaobjects", "metaobjectsPlain"}

\* The loaders that set fromCache on the cached object before returning it.
MarksFromCache(route) == route \in {"pricelists", "redirects"}

\* A check that lets a request without an apiKey parameter through.
UnauthorizedIfGiven(env, apiKey) == env # "" /\ apiKey # "" /\ apiKey # env

\* if (process.env.API_KEY && apiKey !== process.env.API_KEY)
Unauthorized(env, apiKey) == env # "" /\ apiKey # env

\* The data of an entry that is there and whose expiry has not passed.
LiveData(entry, t) == IF entry.present /\ entry.expiresAt >= t THEN entry.data ELSE NoData

\* A Cache.get that returns an entry whatever its expiry.
CacheGetIgnoresExpiry(m, key, t) == IF ~m[key].present THEN NoData ELSE m[key].data

\* Cache.get: null when there is no entry or the entry is expired.
CacheGet(m, key, t) ==
    IF ~m[key].present \/ m[key].expiresAt < t THEN NoData ELSE m[key].data

\* A Cache.get that leaves the entry it finds expired in the Map.
CacheAfterGetKeeps(m, key, t) == m

\* Cache.get deletes the entry it finds expired.
CacheAfterGet(m, key, t) ==
    IF m[key].present /\ m[key].expiresAt < t THEN [m EXCEPT ![key] = Absent] ELSE m

\* Cache.delete
CacheDelete(m, key) == [m EXCEPT ![key] = Absent]

\* Cache.clear
CacheClear(m) == [k \in DOMAIN m |-> Absent]

\* Cache.set: expiresAt is Date.now() + ttlSeconds * 1000 milliseconds,
\* which is t + ttlSeconds on the clock of seconds.
CacheSet(m, key, data, ttlSeconds, t) ==
    [m EXCEPT ![key] = CacheEntry(data, t + ttlSeconds)]

\* A read of the Redis cache that lets a failure reach the loader's outer
\* catch block.
RedisReadFatal(store, fails) ==
    IF fails THEN "error" ELSE IF store = NoData THEN "miss" ELSE "hit"

\* productCache.get inside the loader's try block: RedisCache.get catches
\* every error of the client and of JSON.parse and returns null, and the
\* loader's own catch only warns.  A failed read is a miss.
RedisRead(store, fails) ==
    IF fails \/ store = NoData THEN "miss" ELSE "hit"

\* A write to the Redis cache whose failure reaches the outer catch block.
RedisWriteFatal(fails) == IF fails THEN "error" ELSE "stored"

\* productCache.set inside the loader's try block: RedisCache.set catches
\* every error and returns false, which the loader ignores.
RedisWrite(fails) == IF fails THEN "skipped" ELSE "stored"

\* The fetches whose catch block returns instead of throwing: FALSE is in
\* the set when the fetch can throw, TRUE when it can catch.
Catches(f) ==
    CASE f \in {"fetchAllMedia", "fetchInventoryLevels", "fetchMediaById"} -> {TRUE}
      [] f \in {"fetchProductsSimplified", "fetchAllPriceLists", "fetchAllRedirects"} ->
            BOOLEAN
      [] OTHER -> {FALSE}

\* A fetch whose caught failure does not end it: the detail loop of
\* fetchProductsSimplified and the references of one transform go on.
GoesOnAfterCatch(f) == f \in {"fetchProductsSimplified", "fetchMediaById"}

\* The fetches that yield the records of the response.
YieldsItems(f) == f \notin {"fetchAllMedia", "fetchInventoryLevels", "fetchMediaById"}

\* A fetch that has just been called: it runs up to its first await, which
\* is the first query of its loop.
FetchCalled(f) == Task(f, "waiting", 1)

\* The loaders of part_001 await Promise.all([fetchAllProducts(),
\* fetchInventoryLevels()]); the loader of api.products.ts awaits
\* fetchAllProducts() alone.
FetchTasks(route) ==
    CASE route = "products" ->
            [i \in Slots |-> IF i = 1 THEN FetchCalled("fetchAllProducts") ELSE NoTask]
      [] route \in {"productsPlain", "productsMemory"} ->
            [i \in Slots |-> IF i = 1 THEN FetchCalled("fetchAllProducts")
                                      ELSE FetchCalled("fetchInventoryLevels")]
      [] OTHER ->
            [i \in Slots |-> IF i = 1 THEN FetchCalled(FetchOf(route)) ELSE NoTask]

OneTask(t) == [i \in Slots |-> IF i = 1 THEN t ELSE NoTask]

\* The request r after its loader has called the fetches ts.
Launched(r, ts) ==
    LET n == Cardinality({i \in Slots : ts[i].pc = "waiting"})
    IN [r EXCEPT !.asked = @ \/ n > 0,
                 !.inflight = @ + n,
                 !.peak = IF r.inflight + n > @ THEN r.inflight + n ELSE @]

Active(t) == t.pc \in {"ready", "waiting"}

\* What everything outside the loaders is left as.
routeFrame ==
    <<pages, endless, fn, query, pc, after, collected, mediaCache, strategy, detailIdx,
      enrichedProducts, throttled, reqLog, detailLog, slept, detailFaults, fallbackCause,
      outcome, products, runs, tpc, pi, vi, out, sites, initialProcessed, finalProcessed,
      localMediaCache, fetchLog, buildLog, creds, exec, byId, cacheLog>>

\* The loader returns json(body, {status}).
Respond(r, status, body) ==
    /\ req' = [r EXCEPT !.pc = "responded"]
    /\ reply' = Res(status, body)

\* The loader goes on to its fetches: a products loader first awaits
\* fetchAllMedia(), which returns at once when the global cache is set.
StartFetching(r) ==
    IF r.route \in ProductRoutes /\ ~globalMediaCache.set
    THEN /\ req' = Launched([r EXCEPT !.pc = "media", !.builds = @ + 1],
                            OneTask(FetchCalled("fetchAllMedia")))
         /\ tasks' = OneTask(FetchCalled("fetchAllMedia"))
    ELSE /\ req' = Launched([r EXCEPT !.pc = "fetch"], FetchTasks(r.route))
         /\ tasks' = FetchTasks(r.route)

\* The loader is called with a request and runs up to its first await or
\* to its return: the API key check, the 400 of a missing type, and the
\* lookup in the in-memory cache are all synchronous.
Receive(route, apiKey, cache, refresh, type) ==
    /\ req.pc = "idle"
    /\ route \in served
    /\ LET key == KeyOf(route)
           looks == /\ ~Unauthorized(apiKeyEnv, apiKey)
                    /\ ~(NeedsType(route) /\ ~type)
                    /\ StoreOf(route) = "reader" \/ (StoreOf(route) = "memory" /\ ~refresh)
           r == [ReqIdle EXCEPT !.route = route, !.apiKey = apiKey, !.cache = cache,
                               !.refresh = refresh, !.type = type, !.pc = "received",
                               !.memBefore = memCache, !.redisBefore = redis,
                               !.looked = looks,
                               !.found = IF looks THEN LiveData(memCache[key], now)
                                                  ELSE NoData]
           cachedData == CacheGet(memCache, key, now)
       IN IF Unauthorized(apiKeyEnv, apiKey)
          THEN /\ Respond(r, 401, Failure("Unauthorized"))
               /\ UNCHANGED <<memCache, tasks>>
          ELSE IF NeedsType(route) /\ ~type
          THEN /\ Respond(r, 400, Failure("Missing required parameter: type"))
               /\ UNCHANGED <<memCache, tasks>>
          ELSE IF looks /\ cachedData # NoData
          THEN /\ LET data == IF MarksFromCache(route)
                              THEN [cachedData EXCEPT !.fromCache = TRUE]
                              ELSE cachedData
                  IN /\ Respond(r, 200, IF StoreOf(route) = "reader"
                                        THEN ResponseData(cachedData.items, now)
                                        ELSE data)
                     /\ memCache' = [memCache EXCEPT ![key].data = data]
               /\ UNCHANGED tasks
          ELSE IF StoreOf(route) = "reader"
          THEN /\ Respond(r, 404, Failure("Products data not available in cache"))
               /\ memCache' = CacheAfterGet(memCache, key, now)
               /\ UNCHANGED tasks
          ELSE IF StoreOf(route) = "redis" /\ cache
          THEN /\ req' = [r EXCEPT !.pc = "redisGet"]
               /\ UNCHANGED <<memCache, tasks, reply>>
          ELSE /\ StartFetching(r)
               /\ memCache' = IF looks THEN CacheAfterGet(memCache, key, now) ELSE memCache
               /\ UNCHANGED reply
    /\ UNCHANGED <<apiKeyEnv, served, redis, now, shop, globalMediaCache>>
    /\ UNCHANGED routeFrame

\* productCache.get settles: a hit is returned with fromCache and a new
\* timestamp, anything else goes on to the fetches.
RedisGetDone(fails) ==
    /\ req.pc = "redisGet"
    /\ LET read == RedisRead(redis, fails)
           r == [req EXCEPT !.looked = TRUE, !.readFailed = fails,
                            !.found = IF fails THEN NoData ELSE redis]
       IN CASE read = "hit" ->
                  /\ Respond(r, 200, [redis EXCEPT !.fromCache = TRUE, !.timestamp = now])
                  /\ UNCHANGED tasks
            [] read = "miss" ->
                  /\ StartFetching(r)
                  /\ UNCHANGED reply
            [] OTHER ->
                  /\ Respond(r, 500, Failure("Redis"))
                  /\ UNCHANGED tasks
    /\ UNCHANGED <<apiKeyEnv, served, memCache, redis, now, shop, globalMediaCache>>
    /\ UNCHANGED routeFrame

\* A fetch makes its next upstream query, after the delay between two
\* pages; transformDataForLLM fetches the next reference.
Issue(i) ==
    /\ tasks[i].pc = "ready"
    /\ tasks' = [tasks EXCEPT ![i].pc = "waiting", ![i].sent = @ + 1]
    /\ req' = Launched(req, OneTask(FetchCalled(tasks[i].fn)))
    /\ UNCHANGED <<apiKeyEnv, served, memCache, redis, now, shop, reply, globalMediaCache>>
    /\ UNCHANGED routeFrame

\* The query of a fetch is answered with a page that has a next page.
AnswerMore(i) ==
    /\ tasks[i].pc = "waiting"
    /\ tasks[i].sent < MaxTaskQueries
    /\ tasks' = [tasks EXCEPT ![i].pc = "ready"]
    /\ req' = [req EXCEPT !.inflight = @ - 1]
    /\ UNCHANGED <<apiKeyEnv, served, memCache, redis, now, shop, reply, globalMediaCache>>
    /\ UNCHANGED routeFrame

\* The query of a fetch is answered with its last page: the fetch returns.
\* fetchAllMedia assigns the global cache; the records of the response are
\* those the upstream serves at that time.
AnswerLast(i) ==
    /\ tasks[i].pc = "waiting"
    /\ tasks' = [tasks EXCEPT ![i].pc = "done"]
    /\ req' = [req EXCEPT !.inflight = @ - 1,
                          !.items = IF YieldsItems(tasks[i].fn) /\ req.pc = "fetch"
                                    THEN shop ELSE @]
    /\ globalMediaCache' = IF tasks[i].fn = "fetchAllMedia"
                           THEN SetCache(AddAllMedia(EmptyMap, Concat(pages)))
                           ELSE globalMediaCache
    /\ UNCHANGED <<apiKeyEnv, served, memCache, redis, now, shop, reply>>
    /\ UNCHANGED routeFrame

\* The query of a fetch fails.  fetchAllProducts falls back to
\* fetchProductsSimplified when the error has the cost signature; a fetch
\* that catches returns what it has or goes on; the others throw.
AnswerFail(i, costly, caught) ==
    /\ tasks[i].pc = "waiting"
    /\ caught \in Catches(tasks[i].fn)
    /\ costly => tasks[i].fn = "fetchAllProducts"
    /\ LET t == tasks[i]
           next == IF costly THEN FetchCalled("fetchProductsSimplified")
                     ELSE IF ~caught THEN [t EXCEPT !.pc = "threw"]
                     ELSE IF GoesOnAfterCatch(t.fn) /\ t.sent < MaxTaskQueries
                     THEN [t EXCEPT !.pc = "ready"]
                     ELSE [t EXCEPT !.pc = "done"]
       IN /\ tasks' = [tasks EXCEPT ![i] = next]
          /\ req' = [req EXCEPT !.inflight = IF costly THEN @ ELSE @ - 1,
                                !.items = IF next.pc = "done" /\ YieldsItems(t.fn)
                                             /\ req.pc = "fetch"
                                          THEN shop ELSE @]
    /\ UNCHANGED <<apiKeyEnv, served, memCache, redis, now, shop, reply, globalMediaCache>>
    /\ UNCHANGED routeFrame

\* The loader has its transformed data: it builds responseData, stores it
\* where it caches, and returns it.  The write to Redis is awaited.
Completes ==
    LET responseData == ResponseData(req.items, now)
    IN CASE StoreOf(req.route) = "memory" ->
               /\ memCache' = CacheSet(memCache, KeyOf(req.route), responseData,
                                       TtlOf(req.route), now)
               /\ Respond([req EXCEPT !.data = responseData], 200, responseData)
         [] StoreOf(req.route) = "redis" /\ req.cache ->
               /\ req' = [req EXCEPT !.pc = "redisSet", !.data = responseData]
               /\ UNCHANGED <<memCache, reply>>
         [] OTHER ->
               /\ Respond([req EXCEPT !.data = responseData], 200, responseData)
               /\ UNCHANGED memCache

\* await fetchAllMedia() of a products loader has returned: the loader
\* calls its fetches.
PrefetchDone ==
    /\ req.pc = "media"
    /\ tasks[1].pc = "done"
    /\ req' = Launched([req EXCEPT !.pc = "fetch"], FetchTasks(req.route))
    /\ tasks' = FetchTasks(req.route)
    /\ UNCHANGED <<apiKeyEnv, served, memCache, redis, now, shop, reply, globalMediaCache>>
    /\ UNCHANGED routeFrame

\* A fetch the loader awaits has thrown: the outer catch block answers 500.
\* A fetch awaited together with it goes on in the background.
FetchFailed ==
    /\ req.pc = "fetch"
    /\ \E i \in Slots : tasks[i].pc = "threw"
    /\ Respond(req, 500, Failure("Error"))
    /\ tasks' = [i \in Slots |-> IF Active(tasks[i]) THEN tasks[i] ELSE NoTask]
    /\ UNCHANGED <<apiKeyEnv, served, memCache, redis, now, shop, globalMediaCache>>
    /\ UNCHANGED routeFrame

\* The fetches the loader awaits have returned.  A products loader calls
\* transformDataForLLM, which awaits fetchAllMedia() again: with the global
\* cache set that is no query, without it the listing is paged through once
\* more.  The other loaders transform without a query.
FetchDone ==
    /\ req.pc = "fetch"
    /\ \A i \in Slots : tasks[i].pc \in {"done", "none"}
    /\ IF req.route \in ProductRoutes /\ ~globalMediaCache.set
       THEN /\ req' = Launched([req EXCEPT !.pc = "remedia", !.builds = @ + 1],
                               OneTask(FetchCalled("fetchAllMedia")))
            /\ tasks' = OneTask(FetchCalled("fetchAllMedia"))
            /\ UNCHANGED <<memCache, reply>>
       ELSE /\ Completes
            /\ tasks' = NoTasks
    /\ UNCHANGED <<apiKeyEnv, served, redis, now, shop, globalMediaCache>>
    /\ UNCHANGED routeFrame

\* fetchAllMedia() of transformDataForLLM has returned.  With the global
\* cache still unset the references are fetched one by one (fetchMediaById).
RebuildDone ==
    /\ req.pc = "remedia"
    /\ tasks[1].pc = "done"
    /\ IF ~globalMediaCache.set
       THEN /\ req' = [req EXCEPT !.pc = "resolve"]
            /\ tasks' = OneTask(Task("fetchMediaById", "ready", 0))
            /\ UNCHANGED <<memCache, reply>>
       ELSE /\ Completes
            /\ tasks' = NoTasks
    /\ UNCHANGED <<apiKeyEnv, served, redis, now, shop, globalMediaCache>>
    /\ UNCHANGED routeFrame

\* transformDataForLLM has gone through every reference, with as many
\* direct fetches as there were references to fetch.
ResolveDone ==
    /\ req.pc = "resolve"
    /\ tasks[1].pc \in {"ready", "done"}
    /\ Completes
    /\ tasks' = NoTasks
    /\ UNCHANGED <<apiKeyEnv, served, redis, now, shop, globalMediaCache>>
    /\ UNCHANGED routeFrame

\* productCache.set settles: stored or not, responseData is returned.
RedisSetDone(fails) ==
    /\ req.pc = "redisSet"
    /\ LET written == RedisWrite(fails)
       IN /\ redis' = IF written = "stored" THEN req.data ELSE redis
          /\ IF written = "error"
             THEN Respond([req EXCEPT !.writeFailed = fails], 500, Failure("Redis"))
             ELSE Respond([req EXCEPT !.writeFailed = fails], 200, req.data)
    /\ UNCHANGED <<apiKeyEnv, served, memCache, now, shop, tasks, globalMediaCache>>
    /\ UNCHANGED routeFrame

\* The response is out and no fetch of the request is left running: the
\* process takes the next request.
Finish ==
    /\ req.pc = "responded"
    /\ \A i \in Slots : ~Active(tasks[i])
    /\ req' = ReqIdle
    /\ tasks' = NoTasks
    /\ reply' = NoRes
    /\ UNCHANGED <<apiKeyEnv, served, memCache, redis, now, shop, globalMediaCache>>
    /\ UNCHANGED routeFrame

\* Time passes between two requests: a tick is long, and a request is
\* served within one.
Tick ==
    /\ req.pc = "idle"
    /\ now < MaxTicks * TickSeconds
    /\ now' = now + TickSeconds
    /\ UNCHANGED <<apiKeyEnv, served, memCache, redis, shop, req, tasks, reply, globalMediaCache>>
    /\ UNCHANGED routeFrame

\* The data of the shop changes.
ShopChanges ==
    /\ shop < MaxVersion
    /\ shop' = shop + 1
    /\ UNCHANGED <<apiKeyEnv, served, memCache, redis, now, req, tasks, reply, globalMediaCache>>
    /\ UNCHANGED routeFrame

\* The parameters a loader reads from the url; the others are left at
\* their defaults.
ApiKeys(env) == IF env = "" THEN {""} ELSE {"", "secret", "wrong"}

CacheParams(route) == IF route \in ProductRoutes THEN BOOLEAN ELSE {FALSE}

RefreshParams(route) ==
    IF route \in ProductRoutes \/ StoreOf(route) = "memory" THEN BOOLEAN ELSE {FALSE}

TypeParams(route) == IF NeedsType(route) THEN BOOLEAN ELSE {TRUE}

\* The routes one process is asked for: one of the three loaders of the
\* products with the two routes that read the cached products, or one of
\* the loaders of another listing.
Deployments ==
    {{p} \cup ReaderRoutes : p \in ProductRoutes} \cup {{l} : l \in ListingRoutes}

\* A process whose routes are called one request after the other, with and
\* without an API key in its environment.
InitRoutes ==
    /\ pages = <<<<NodeA>>>>
    /\ endless = FALSE
    /\ globalMediaCache = NullCache
    /\ FetchIdle
    /\ products = <<>>
    /\ TransformIdle
    /\ creds = [shopUrl |-> TRUE, token |-> TRUE]
    /\ exec = ExecIdle
    /\ byId = ByIdIdle
    /\ cacheLog = NoCacheLog
    /\ apiKeyEnv \in {"", "secret"}
    /\ served \in Deployments
    /\ memCache = [k \in CacheKeys |-> Absent]
    /\ redis = NoData
    /\ now = 0
    /\ shop = 1
    /\ req = ReqIdle
    /\ tasks = NoTasks
    /\ reply = NoRes

NextRoutes ==
    \/ \E route \in Routes, apiKey \in ApiKeys(apiKeyEnv) :
          \E cache \in CacheParams(route), refresh \in RefreshParams(route),
             type \in TypeParams(route) :
              Receive(route, apiKey, cache, refresh, type)
    \/ \E fails \in BOOLEAN : RedisGetDone(fails)
    \/ \E i \in Slots : Issue(i)
    \/ \E i \in Slots : AnswerMore(i)
    \/ \E i \in Slots : AnswerLast(i)
    \/ \E i \in Slots, costly \in BOOLEAN, caught \in BOOLEAN : AnswerFail(i, costly, caught)
    \/ PrefetchDone
    \/ FetchFailed
    \/ FetchDone
    \/ RebuildDone
    \/ ResolveDone
    \/ \E fails \in BOOLEAN : RedisSetDone(fails)
    \/ Finish
    \/ Tick
    \/ ShopChanges

SpecRoutes == InitRoutes /\ [][NextRoutes]_vars

\* ------------------------------------------------------------------------
\* The index build over media items of every shape
\* ------------------------------------------------------------------------

\* Largest number of media items on the one page of a listing.
MaxNodes == 2

\* A file the query selects nothing of (a GenericFile): an empty object.
NodeNone == Node(NoStr, NoStr, <<>>, NoStr)

\* An item without an id that has a url.
NodeNoId == Node(NoStr, Url("g"), <<>>, NoStr)

\* An item with an image, sources and an embedded url.
NodeE == Node(Gid("MediaImage", "5"), Url("e"), <<Url("e2")>>, Url("e3"))

\* An item with sources and an embedded url.
NodeF == Node(Gid("Model3d", "6"), NoStr, <<Url("f"), Url("f2")>>, Url("f3"))

MediaItems == {NodeA, NodeB, NodeC, NodeD, NodeE, NodeF, NodeNone, NodeNoId}

\* Listings of one page of up to MaxNodes items, and of two pages of one
\* item each.
MediaListings ==
    {<<p>> : p \in UNION {[1..n -> MediaItems] : n \in 0..MaxNodes}}
    \cup {<<<<a>>, <<b>>>> : a \in MediaItems, b \in MediaItems}

\* Calls of fetchAllMedia, one after the other, against such a listing.
InitMedia ==
    /\ pages \in MediaListings
    /\ endless = FALSE
    /\ globalMediaCache = NullCache
    /\ FetchIdle
    /\ products = <<>>
    /\ TransformIdle
    /\ ServerIdle

NextMedia ==
    \/ StartFetch("fetchAllMedia") /\ UNCHANGED transformVars
    \/ query = "GetAllMedia" /\ PageData /\ UNCHANGED transformVars
    \/ \E resp \in Responses :
          query = "GetAllMedia" /\ PageTransport(resp) /\ UNCHANGED transformVars
    \/ Return /\ UNCHANGED transformVars

SpecMedia == InitMedia /\ [][NextMedia]_vars

\* ------------------------------------------------------------------------
\* fetchInventoryLevels against listings around its ceiling
\* ------------------------------------------------------------------------

\* Listings of one, two, maxPages - 1, maxPages and maxPages + 1 pages of
\* one inventory level each.
InventoryListings ==
    {[i \in 1..n |-> <<NodeA>>] : n \in {1, 2, maxPages - 1, maxPages, maxPages + 1}}

\* Calls of fetchInventoryLevels, one after the other.
InitInventory ==
    /\ pages \in InventoryListings
    /\ endless = FALSE
    /\ globalMediaCache = NullCache
    /\ FetchIdle
    /\ products = <<>>
    /\ TransformIdle
    /\ ServerIdle

NextInventory ==
    \/ StartFetch("fetchInventoryLevels") /\ UNCHANGED transformVars
    \/ PageData /\ UNCHANGED transformVars
    \/ PageNoData /\ UNCHANGED transformVars
    \/ \E resp \in Responses : PageErrors(resp) /\ UNCHANGED transformVars
    \/ \E resp \in Responses : PageTransport(resp) /\ UNCHANGED transformVars
    \/ Return /\ UNCHANGED transformVars

SpecInventory == InitInventory /\ [][NextInventory]_vars

\* ------------------------------------------------------------------------
\* fetchMediaById on its own
\* ------------------------------------------------------------------------

\* The ids fetchMediaById is called with: ids of media, an id the upstream
\* does not know, and a bare number that is a key of the index.
MediaIds == {IdA, IdB, IdC, IdD, IdX, <<"42">>}

\* Calls of fetchMediaById, one after the other, in processes whose index
\* is unset or built, with and without credentials.
InitById ==
    /\ pages \in ProcessCatalogs
    /\ endless = FALSE
    /\ globalMediaCache \in {NullCache, SetCache(AddAllMedia(EmptyMap, Concat(pages)))}
    /\ FetchIdle
    /\ products = <<>>
    /\ TransformIdle
    /\ creds \in [shopUrl : BOOLEAN, token : BOOLEAN]
    /\ exec = ExecIdle
    /\ byId = ByIdIdle
    /\ cacheLog = NoCacheLog
    /\ RoutesIdle

NextById ==
    \/ \E mediaId \in MediaIds : MediaByIdCall(mediaId) /\ UNCHANGED execFrame
    \/ \E resp \in Responses : MediaByIdAnswer(resp) /\ UNCHANGED execFrame
    \/ MediaByIdReturn /\ UNCHANGED execFrame

SpecById == InitById /\ [][NextById]_vars

\* ------------------------------------------------------------------------
\* The in-memory Cache on its own
\* ------------------------------------------------------------------------

\* What a call of a method of Cache leaves alone.
cacheFrame ==
    <<execFrame, creds, exec, byId, apiKeyEnv, served, redis, now, shop, req, tasks, reply>>

\* cache.get(key)
CacheOpGet(key) ==
    /\ memCache' = CacheAfterGet(memCache, key, now)
    /\ cacheLog' = CacheLog("get", key, now, CacheGet(memCache, key, now), cacheLog.latest)
    /\ UNCHANGED cacheFrame

\* cache.set(key, data, ttlSeconds)
CacheOpSet(key, data, ttlSeconds) ==
    /\ memCache' = CacheSet(memCache, key, data, ttlSeconds, now)
    /\ cacheLog' = CacheLog("set", key, now, NoData,
                            [cacheLog.latest EXCEPT ![key] = LatestSet(data, now, ttlSeconds)])
    /\ UNCHANGED cacheFrame

\* cache.delete(key)
CacheOpDelete(key) ==
    /\ memCache' = CacheDelete(memCache, key)
    /\ cacheLog' = CacheLog("delete", key, now, NoData, [cacheLog.latest EXCEPT ![key] = NoSet])
    /\ UNCHANGED cacheFrame

\* cache.clear()
CacheOpClear ==
    /\ memCache' = CacheClear(memCache)
    /\ cacheLog' = CacheLog("clear", "", now, NoData, [k \in CacheKeys |-> NoSet])
    /\ UNCHANGED cacheFrame

\* The keys, the data and the times to live of the calls.
OpKeys == {"shopify_products_data", "shopify_pages_data"}

OpData == {ResponseData(v, 0) : v \in 1..MaxVersion}

OpTtls == {0, DEFAULT_CACHE_TTL, 2 * DEFAULT_CACHE_TTL}

\* Calls of the methods of the Cache singleton in any order, while time
\* passes.
InitCache ==
    /\ pages = <<<<NodeA>>>>
    /\ endless = FALSE
    /\ globalMediaCache = NullCache
    /\ FetchIdle
    /\ products = <<>>
    /\ TransformIdle
    /\ ServerIdle

NextCache ==
    \/ \E key \in OpKeys : CacheOpGet(key) /\ UNCHANGED globalMediaCache
    \/ \E key \in OpKeys, data \in OpData, ttlSeconds \in OpTtls :
          CacheOpSet(key, data, ttlSeconds) /\ UNCHANGED globalMediaCache
    \/ \E key \in OpKeys : CacheOpDelete(key) /\ UNCHANGED globalMediaCache
    \/ CacheOpClear /\ UNCHANGED globalMediaCache
    \/ Tick

SpecCache == InitCache /\ [][NextCache]_vars

\* What the two runs leave alone.
raceFrame ==
    <<pages, endless, fn, query, pc, after, collected, mediaCache, strategy, detailIdx,
      enrichedProducts, throttled, reqLog, detailLog, slept, detailFaults, fallbackCause,
      outcome, products, serverVars, tpc, pi, vi, out, sites, initialProcessed,
      finalProcessed, localMediaCache, fetchLog, buildLog>>

\* A build that stores its Map in the global cache after every page.
StoredEachPage(global, cache, more) == SetCache(cache)

\* globalMediaCache = mediaCache comes after the while loop: the global
\* cache is assigned once, when the last page has been added.
StoredAfterPage(global, cache, more) == IF more THEN global ELSE SetCache(cache)

\* Run r calls fetchAllMedia: it returns the global cache at once when that
\* is set, and starts a build with a Map of its own otherwise.
RaceCall(r) ==
    /\ runs[r].pc = "idle"
    /\ runs' = [runs EXCEPT ![r] =
                  IF AnswersFromCache("fetchAllMedia", globalMediaCache)
                  THEN [@ EXCEPT !.pc = "resolving", !.index = globalMediaCache.map,
                                 !.how = "cached"]
                  ELSE [@ EXCEPT !.pc = "build"]]
    /\ UNCHANGED globalMediaCache
    /\ UNCHANGED raceFrame

\* The page request of run r's build is answered with the page after its
\* cursor: the run goes on to the next await, which is the next request, or
\* leaves the loop, assigns the global cache and returns its Map.
RacePage(r) ==
    /\ runs[r].pc = "build"
    /\ LET run == runs[r]
           nodes == pages[run.after + 1]
           more == run.after + 1 < Len(pages)
           cache == AddAllMedia(run.mediaCache, nodes)
       IN /\ runs' = [runs EXCEPT ![r] =
                        IF more
                        THEN [run EXCEPT !.after = @ + 1, !.mediaCache = cache]
                        ELSE [run EXCEPT !.after = @ + 1, !.mediaCache = cache,
                                         !.pc = "resolving", !.index = cache,
                                         !.how = "built"]]
          /\ globalMediaCache' = StoredAfterPage(globalMediaCache, cache, more)
    /\ UNCHANGED raceFrame

\* The page request of run r's build fails: the catch block returns a new
\* empty Map and leaves the global cache as it is.
RaceFail(r) ==
    /\ runs[r].pc = "build"
    /\ runs' = [runs EXCEPT ![r] =
                  [@ EXCEPT !.pc = "resolving", !.index = EmptyMap, !.how = "failed"]]
    /\ UNCHANGED globalMediaCache
    /\ UNCHANGED raceFrame

\* Run r, back from fetchAllMedia, calls processMetafieldsWithFetch with
\* `globalMediaCache || undefined`: it resolves against the global cache as
\* it is at that moment.
RaceResolve(r) ==
    /\ runs[r].pc = "resolving"
    /\ runs' = [runs EXCEPT ![r].used = @ \union {globalMediaCache}]
    /\ UNCHANGED globalMediaCache
    /\ UNCHANGED raceFrame

\* Run r returns its records.
RaceEnd(r) ==
    /\ runs[r].pc = "resolving"
    /\ runs' = [runs EXCEPT ![r].pc = "done"]
    /\ UNCHANGED globalMediaCache
    /\ UNCHANGED raceFrame

\* Two transform runs side by side in a process whose global cache is unset.
InitRace == Init

NextRace ==
    \/ \E r \in Runs : RaceCall(r)
    \/ \E r \in Runs : RacePage(r)
    \/ \E r \in Runs : RaceFail(r)
    \/ \E r \in Runs : RaceResolve(r)
    \/ \E r \in Runs : RaceEnd(r)

SpecRace == InitRace /\ [][NextRace]_vars

\* The fetches that retry on THROTTLED, against an upstream that may go on
\* throttling.  Every request is answered and every sleep ends: the loop is
\* never left waiting.
InitThrottled == Init

NextThrottled ==
    \/ \E f \in {"fetchAllCollections", "fetchProductsForCollection"} :
          StartFetch(f) /\ UNCHANGED transformVars
    \/ PageData /\ UNCHANGED transformVars
    \/ \E resp \in Responses : PageErrors(resp) /\ UNCHANGED transformVars
    \/ \E resp \in Responses : PageThrottledOn(resp) /\ UNCHANGED transformVars
    \/ Backoff /\ UNCHANGED transformVars
    \/ Return /\ UNCHANGED transformVars

SpecThrottled == InitThrottled /\ [][NextThrottled]_vars /\ WF_vars(NextThrottled)

\* The listings that never end: the upstream serves their pages in turn and
\* reports hasNextPage = true on each.
EndlessCatalogs == {<<<<NodeA>>>>, <<<<NodeB, NodeD, NodeC>>, <<>>>>}

\* The fetches against a listing that never ends.
InitEndless ==
    /\ pages \in EndlessCatalogs
    /\ endless = TRUE
    /\ globalMediaCache = NullCache
    /\ FetchIdle
    /\ products = <<>>
    /\ TransformIdle
    /\ ServerIdle

NextEndless ==
    \/ \E f \in Fetches : StartFetch(f) /\ UNCHANGED transformVars
    \/ PageData /\ UNCHANGED transformVars
    \/ \E resp \in Responses : PageTransport(resp) /\ UNCHANGED transformVars
    \/ Return /\ UNCHANGED transformVars

SpecEndless == InitEndless /\ [][NextEndless]_vars

\* One call of processMetafieldsWithFetch, in a process whose global media
\* cache is not set or was built from the listing of the upstream.
InitProcess ==
    /\ pages \in ProcessCatalogs
    /\ endless = FALSE
    /\ globalMediaCache \in {NullCache, SetCache(AddAllMedia(EmptyMap, Concat(pages)))}
    /\ FetchIdle
    /\ products \in ProcessInputs
    /\ TransformIdle
    /\ ServerIdle

NextProcess ==
    \/ ProcessCall
    \/ \E resp \in Responses : DirectFetch(resp)

SpecProcess == InitProcess /\ [][NextProcess]_vars

\* ------------------------------------------------------------------------
\* Properties of the paginating fetches (Spec)
\* ------------------------------------------------------------------------

\* Every answer the running loop has had is a page of data.
AllData == \A i \in 1..Len(reqLog) : reqLog[i].resp.t = "data"

\* The positions of the log whose answer carries THROTTLED.
ThrottledAt == {i \in 1..Len(reqLog) : IsThrottled(reqLog[i].resp)}

\* The upstream behaved as a mock that throttles exactly one request and
\* answers every other request with its page.
ThrottledOnceElseData ==
    /\ Cardinality(ThrottledAt) = 1
    /\ \A i \in 1..Len(reqLog) :
          i \notin ThrottledAt => reqLog[i].resp.t = "data"
    /\ \A i \in ThrottledAt : reqLog[i].resp.codes = {"THROTTLED"}

\* The nodes a returned fetch gave its caller, in order.
ReturnedNodes ==
    IF strategy = "two-phase"
    THEN [i \in 1..Len(outcome.items) |-> outcome.items[i].node]
    ELSE outcome.items

\* The fetch gave its caller everything the listing holds, in listing order
\* (fetchAllMedia: the index of everything the listing holds).
ReturnedEverything ==
    /\ outcome.status = "returned"
    /\ IF fn = "fetchAllMedia"
       THEN /\ outcome.index = AddAllMedia(EmptyMap, Concat(pages))
            /\ globalMediaCache = SetCache(outcome.index)
       ELSE ReturnedNodes = ItemsOf(query, Concat(pages))

\* C1: in every paginating fetch, when the upstream answers one page request
\* with a THROTTLED errors envelope and every other request with its page,
\* the fetch completes successfully and its result holds the items of every
\* page exactly once.
C1_ThrottleLosesNothing ==
    (pc = "done" /\ ThrottledOnceElseData) => ReturnedEverything

\* C2: when every page request is answered successfully and page N is the
\* first to report hasNextPage = false, a paginating fetch makes exactly N
\* page requests, the p-th with the cursor of page p - 1, then stops, and
\* what it has collected is the concatenation of the pages 1..N in page
\* order, nothing dropped, duplicated or reordered.
C2_AllPagesInOrder ==
    (reqLog # <<>> /\ AllData) =>
        /\ Len(reqLog) <= Len(pages)
        /\ \A i \in 1..Len(reqLog) : reqLog[i].after = i - 1
        /\ pc = "page" => after = Len(reqLog) /\ Len(reqLog) < Len(pages)
        /\ pc \in {"detail", "done"} =>
              /\ Len(reqLog) = Len(pages)
              /\ IF fn = "fetchAllMedia"
                 THEN mediaCache = AddAllMedia(EmptyMap, Concat(pages))
                 ELSE collected = ItemsOf(query, Concat(pages))
        /\ pc = "done" => ReturnedEverything

\* C2 witness: a fetch of a three-page listing has returned, every request
\* answered with data, with nodes from more than one page.
C2_Witness ==
    /\ pc = "done"
    /\ fn = "fetchAllCollections"
    /\ AllData
    /\ Len(reqLog) = 3
    /\ pages[1] # <<>> /\ pages[2] # <<>> /\ pages[3] # <<>>
    /\ pages[1] # pages[2]
    /\ outcome.status = "returned"

\* The answer is an errors envelope with the cost-limit signature.
CostEnvelope(resp) == resp.t = "errors" /\ "MAX_COST_EXCEEDED" \in resp.codes

\* C3: a cost-limit errors envelope on a page request of the rich query makes
\* fetchAllProducts switch to the two-phase strategy (the rich loop never
\* ends on it), and once the basic query has enumerated the products, the
\* fetch returns one record per enumerated product, in order, each with its
\* identity fields, whatever the detail queries were answered.
C3_FallbackKeepsEveryProduct ==
    /\ \A i \in 1..Len(reqLog) :
          ~(reqLog[i].query = "GetAllProducts" /\ CostEnvelope(reqLog[i].resp))
    /\ CostEnvelope(fallbackCause.resp) =>
          /\ fn = "fetchAllProducts"
          /\ strategy = "two-phase"
          /\ query = "GetAllProductsBasic"
          /\ \A i \in 1..Len(reqLog) : reqLog[i].query = "GetAllProductsBasic"
    /\ (fn = "fetchAllProducts" /\ strategy = "two-phase" /\ pc = "done" /\ AllData
        /\ reqLog # <<>>) =>
          /\ outcome.status = "returned"
          /\ Len(outcome.items) = Len(Concat(pages))
          /\ \A i \in 1..Len(outcome.items) :
                /\ outcome.items[i].id = Concat(pages)[i].id
                /\ outcome.items[i].node = Concat(pages)[i]
                /\ Truthy(outcome.items[i].id)
    /\ (fn = "fetchAllProducts" /\ strategy = "two-phase" /\ pc = "detail") =>
          /\ Len(enrichedProducts) = detailIdx
          /\ detailLog = [i \in 1..detailIdx |-> collected[i].id]

\* C3 witness: the fallback was taken on a cost-limit envelope, a detail
\* query failed, and fetchAllProducts returned several records, one of
\* them shallow and one enriched.
C3_Witness ==
    /\ fn = "fetchAllProducts"
    /\ pc = "done"
    /\ CostEnvelope(fallbackCause.resp)
    /\ detailFaults = 1
    /\ Len(outcome.items) >= 2
    /\ \E i, j \in 1..Len(outcome.items) :
          outcome.items[i].detailed /\ ~outcome.items[j].detailed

\* C4: fetchAllProducts is in the two-phase strategy only after an errors
\* envelope with the cost-limit signature; a transport failure, whatever the
\* body of the response says, never makes it fall back.
C4_FallbackOnlyOnCostEnvelope ==
    (fn = "fetchAllProducts" /\ strategy = "two-phase") => CostEnvelope(fallbackCause.resp)

\* The positions of the nodes of a listing that fetchAllMedia indexes.
Indexed(nodes) ==
    {i \in 1..Len(nodes) : Truthy(nodes[i].id) /\ Truthy(MediaUrlOf(nodes[i]))}

KeysOf(id) == {id, StripGid(id), NumericId(id)}

Max(S) == CHOOSE x \in S : \A y \in S : y <= x

\* C7 (as claimed): in the built index every indexed asset is found under its
\* id, its id without 'gid://' and its last segment, each time with its own
\* url, whatever the listing holds.
C7_OwnUrlUnderEveryKey ==
    globalMediaCache.set =>
        LET nodes == Concat(pages)
        IN \A i \in Indexed(nodes) : \A k \in KeysOf(nodes[i].id) :
              MapGet(globalMediaCache.map, k) = MediaUrlOf(nodes[i])

\* C7 (amended): in the built index every key of an indexed asset holds the
\* url of the last asset of the listing, in page order, that has this key
\* among its three keys: the asset's own url unless a later asset shares
\* the key; and the index holds no other key.
C7_LastAssetWinsKey ==
    globalMediaCache.set =>
        LET nodes == Concat(pages)
            Having(k) == {j \in Indexed(nodes) : k \in KeysOf(nodes[j].id)}
        IN /\ \A i \in Indexed(nodes) : \A k \in KeysOf(nodes[i].id) :
                 MapGet(globalMediaCache.map, k) = MediaUrlOf(nodes[Max(Having(k))])
           /\ DOMAIN globalMediaCache.map = UNION {KeysOf(nodes[i].id) : i \in Indexed(nodes)}

\* C7 witness: the index is built from a listing in which two assets with
\* different urls share the last segment of their ids.
C7_Witness ==
    /\ globalMediaCache.set
    /\ LET nodes == Concat(pages)
       IN \E i, j \in Indexed(nodes) :
             /\ i < j
             /\ NumericId(nodes[i].id) = NumericId(nodes[j].id)
             /\ MediaUrlOf(nodes[i]) # MediaUrlOf(nodes[j])
             /\ MapGet(globalMediaCache.map, NumericId(nodes[i].id)) = MediaUrlOf(nodes[j])

\* ------------------------------------------------------------------------
\* Properties of the resolution of file references (SpecTransform, SpecProcess)
\* ------------------------------------------------------------------------

ScalarRef(metafield) ==
    metafield.type = "file_reference" /\ TextTruthy(metafield.value)

ListField(metafield) ==
    metafield.type = "list.file_reference" /\ TextTruthy(metafield.value)

FetchedIds == {fetchLog[i].id : i \in 1..Len(fetchLog)}

\* A scalar reference that is still unresolved in the output was asked of the
\* upstream by id.
FetchedIfUnresolved(input, output) ==
    (ScalarRef(input) /\ ~output.processed) => input.value.s \in FetchedIds

\* C5: in a run of transformDataForLLM, a scalar file_reference whose id no
\* index answers is fetched by id from the upstream, so a scalar reference is
\* left unresolved in the output only after a direct fetch of its id.
C5_UnresolvedScalarIsFetched ==
    tpc = "done" =>
        \A p \in 1..Len(out) :
            /\ \A i \in 1..Len(out[p].metafields) :
                  FetchedIfUnresolved(products[p].metafields[i], out[p].metafields[i])
            /\ \A v \in 1..Len(out[p].variants) :
                  \A i \in 1..Len(out[p].variants[v].metafields) :
                      FetchedIfUnresolved(products[p].variants[v].metafields[i],
                                          out[p].variants[v].metafields[i])

\* The input of the call of SpecProcess and its indices.
Input == products[1].metafields

LocalIndex == MediaMap(products[1].images, products[1].media)

Called == tpc # "idle"

\* C6: the url of a scalar file_reference is the first hit of: the local
\* index with the id as it is, without 'gid://', with its last segment, then
\* the global index with the id as it is, without 'gid://', with its last
\* segment; with no hit the field is returned as it was.
C6_LocalBeforeGlobal ==
    Called =>
        \A i \in 1..Len(Input) :
            ScalarRef(Input[i]) =>
                LET url == LookupLocalFirst(LocalIndex, globalMediaCache, Input[i].value.s)
                IN initialProcessed[i] =
                      IF Truthy(url) THEN ProcessedScalar(Input[i], url) ELSE Input[i]

\* The urls the indices hold under one of the three key forms of an id.
UrlsKnownFor(id) ==
    {u \in {MapGet(LocalIndex, k) : k \in KeysOf(id)}
           \cup (IF globalMediaCache.set
                 THEN {MapGet(globalMediaCache.map, k) : k \in KeysOf(id)}
                 ELSE {}) : Truthy(u)}

\* The value is the JSON text of an array of strings.
ArrayOfStrings(value) ==
    value.k = "array" /\ \A j \in 1..Len(value.elems) : value.elems[j].str

\* C8: processMetafields turns a list.file_reference whose value is a JSON
\* array of ids into a processed field whose value is a JSON array of the
\* same length: position j holds a url an index has for id j when an index
\* knows the id under one of its key forms, and the unchanged id otherwise.
C8_ListElementWise ==
    Called =>
        \A i \in 1..Len(Input) :
            (ListField(Input[i]) /\ ArrayOfStrings(Input[i].value)) =>
                LET ids == Input[i].value.elems
                    res == initialProcessed[i]
                IN /\ res.processed
                   /\ ArrayOfStrings(res.value)
                   /\ Len(res.value.elems) = Len(ids)
                   /\ \A j \in 1..Len(ids) :
                         IF UrlsKnownFor(ids[j].s) # {}
                         THEN res.value.elems[j].s \in UrlsKnownFor(ids[j].s)
                         ELSE res.value.elems[j] = ids[j]

\* C8 witness: a list of several ids was resolved with one id replaced by a
\* url and another id left as it was.
C8_Witness ==
    /\ Called
    /\ \E i \in 1..Len(Input) :
          /\ ListField(Input[i]) /\ ArrayOfStrings(Input[i].value)
          /\ initialProcessed[i].processed
          /\ \E j, k \in 1..Len(Input[i].value.elems) :
                /\ initialProcessed[i].value.elems[j] # Input[i].value.elems[j]
                /\ ~IncludesGid(initialProcessed[i].value.elems[j].s)
                /\ initialProcessed[i].value.elems[k] = Input[i].value.elems[k]
                /\ IncludesGid(Input[i].value.elems[k].s)

\* The list value is not a JSON array of strings.
Malformed(metafield) == ListField(metafield) /\ ~ArrayOfStrings(metafield.value)

\* C9: a list.file_reference whose value is not a JSON array of strings
\* comes back as it went in (same value, no originalValue, not processed)
\* from processMetafields and from processMetafieldsWithFetch, and the call
\* returns a field for every field it was given.
C9_MalformedListUnmodified ==
    Called =>
        /\ Len(initialProcessed) = Len(Input)
        /\ Len(finalProcessed) = Len(Input)
        /\ tpc = "done" => Len(out) = 1 /\ Len(out[1].metafields) = Len(Input)
        /\ \A i \in 1..Len(Input) :
              Malformed(Input[i]) =>
                  /\ initialProcessed[i] = Input[i]
                  /\ finalProcessed[i] = Input[i]
                  /\ ~Input[i].processed /\ Input[i].originalValue = NoText
                  /\ tpc = "done" => out[1].metafields[i] = Input[i]

\* C9 witness: the call has returned a malformed list next to a list it
\* resolved.
C9_Witness ==
    /\ tpc = "done"
    /\ \E i, j \in 1..Len(Input) :
          /\ Malformed(Input[i])
          /\ Input[i].value.k = "array"
          /\ out[1].metafields[i] = Input[i]
          /\ out[1].metafields[j].processed
          /\ out[1].metafields[j].type = "list.file_reference"

\* The processed field keeps the input's value as originalValue and has a
\* value of the input's shape.
KeepsOriginal(input, output) ==
    output.processed =>
        /\ output.originalValue = input.value
        /\ output.key = input.key /\ output.type = input.type
        /\ input.type = "file_reference" =>
              /\ input.value.k = "str"
              /\ output.value.k = "str" /\ Truthy(output.value.s)
        /\ input.type = "list.file_reference" =>
              /\ ArrayOfStrings(input.value)
              /\ ArrayOfStrings(output.value)
              /\ Len(output.value.elems) = Len(input.value.elems)
        /\ input.type \in {"file_reference", "list.file_reference"}

\* C10: every processed field has the value of its input as originalValue
\* (the bare id of a file_reference, the JSON text of a list.file_reference)
\* and a value of the same shape, after processMetafields, during the
\* direct-fetch pass of processMetafieldsWithFetch and in what it returns.
C10_OriginalValueKept ==
    Called =>
        \A i \in 1..Len(Input) :
            /\ KeepsOriginal(Input[i], initialProcessed[i])
            /\ KeepsOriginal(Input[i], finalProcessed[i])
            /\ tpc = "done" => KeepsOriginal(Input[i], out[1].metafields[i])

\* C10 witness: the call has returned a list in which the direct-fetch pass
\* replaced an id by a url; the text of the input was not canonical JSON.
C10_Witness ==
    /\ tpc = "done"
    /\ fetchLog # <<>>
    /\ \E i \in 1..Len(Input) :
          /\ out[1].metafields[i].processed
          /\ out[1].metafields[i].type = "list.file_reference"
          /\ out[1].metafields[i].value # initialProcessed[i].value
          /\ ~Input[i].value.canon

\* ------------------------------------------------------------------------
\* Properties of unanswered and numeric references
\* ------------------------------------------------------------------------

\* The urls the local index of product p and the global index hold under
\* one of the three key forms of an id.
UrlsKnownIn(p, id) ==
    LET local == MediaMap(products[p].images, products[p].media)
    IN {u \in {MapGet(local, k) : k \in KeysOf(id)}
              \cup (IF globalMediaCache.set
                    THEN {MapGet(globalMediaCache.map, k) : k \in KeysOf(id)}
                    ELSE {}) : Truthy(u)}

\* A scalar reference that no index answers comes out as it went in.
PassedThrough(p, input, output) ==
    (ScalarRef(input) /\ UrlsKnownIn(p, input.value.s) = {}) =>
        /\ output = input
        /\ ~output.processed
        /\ output.value.s = input.value.s

\* C11: a scalar file_reference that neither the local index nor the global
\* index answers is passed through with the raw id as its value and not
\* marked processed; the run goes on and returns a record for every product,
\* with a field for every field of the product and of each of its variants.
C11_UnansweredScalarPassesThrough ==
    tpc = "done" =>
        /\ Len(out) = Len(products)
        /\ \A p \in 1..Len(out) :
              /\ out[p].id = products[p].id
              /\ Len(out[p].metafields) = Len(products[p].metafields)
              /\ Len(out[p].variants) = Len(products[p].variants)
              /\ \A i \in 1..Len(out[p].metafields) :
                    PassedThrough(p, products[p].metafields[i], out[p].metafields[i])
              /\ \A v \in 1..Len(out[p].variants) :
                    /\ Len(out[p].variants[v].metafields) =
                          Len(products[p].variants[v].metafields)
                    /\ \A i \in 1..Len(out[p].variants[v].metafields) :
                          PassedThrough(p, products[p].variants[v].metafields[i],
                                        out[p].variants[v].metafields[i])

\* C11 witness: a run over two products has returned; a scalar reference of
\* the first product was answered by no index and passed through, and a
\* reference of the second product was resolved.
C11_Witness ==
    /\ tpc = "done"
    /\ Len(out) = 2
    /\ \E i \in 1..Len(out[1].metafields) :
          /\ ScalarRef(products[1].metafields[i])
          /\ UrlsKnownIn(1, products[1].metafields[i].value.s) = {}
          /\ out[1].metafields[i] = products[1].metafields[i]
    /\ \E i \in 1..Len(out[2].metafields) : out[2].metafields[i].processed

\* The value is the bare last segment of an id.
BareSuffix(value) == value.k = "str" /\ Len(value.s) = 1 /\ Truthy(value.s)

\* The urls of the assets whose id ends in the segment n, in the indices the
\* resolver of SpecProcess consults: the global index, the product's media
\* and the product's images.
SuffixUrls(n) ==
    LET listed == Concat(pages)
        media == products[1].media
        images == products[1].images
    IN (IF globalMediaCache.set
        THEN {MediaUrlOf(listed[j]) : j \in {j \in Indexed(listed) :
                                              NumericId(listed[j].id) = n}}
        ELSE {})
       \cup {MediaUrlOf(media[j]) : j \in {j \in Indexed(media) :
                                            NumericId(media[j].id) = n}}
       \cup {images[j].url : j \in {j \in 1..Len(images) :
                                     /\ Truthy(images[j].id) /\ Truthy(images[j].url)
                                     /\ NumericId(images[j].id) = n}}

\* C12: a scalar file_reference whose raw value is the numeric suffix of an
\* asset held by the global index, by the product's media or by the
\* product's images resolves to the url of such an asset, with the raw value
\* as originalValue and processed = true.
C12_NumericSuffixResolves ==
    Called =>
        \A i \in 1..Len(Input) :
            (ScalarRef(Input[i]) /\ BareSuffix(Input[i].value)
             /\ SuffixUrls(Input[i].value.s) # {}) =>
                /\ initialProcessed[i].processed
                /\ initialProcessed[i].originalValue = Input[i].value
                /\ initialProcessed[i].value.k = "str"
                /\ initialProcessed[i].value.s \in SuffixUrls(Input[i].value.s)

\* ------------------------------------------------------------------------
\* Properties of the direct fetches and of a failed index build (SpecTransform)
\* ------------------------------------------------------------------------

\* C13: within one run of transformDataForLLM an id that a direct fetch has
\* got a url for is never asked of the upstream again: its later
\* occurrences, in any metafield of any product or variant of the run, are
\* answered from the ephemeral cache.
C13_OneFetchPerId ==
    \A i, j \in 1..Len(fetchLog) :
        (i < j /\ fetchLog[i].id = fetchLog[j].id) => ~Truthy(fetchLog[i].url)

\* The last page request of a log was not answered with a page.
BuildFailed(log) == log # <<>> /\ log[Len(log)].resp.t # "data"

\* C15: when a page request of the index build fails, on the first or on a
\* later page, with a transport failure or an errors envelope, fetchAllMedia
\* returns an empty index instead of throwing, and the run of
\* transformDataForLLM around it goes on to its end and returns a record
\* for every product.
C15_BuildFailsOpen ==
    /\ (tpc = "media" /\ pc = "done" /\ BuildFailed(reqLog)) =>
          outcome = ReturnedIndex(EmptyMap)
    /\ tpc = "media" => outcome.status # "threw"
    /\ tpc = "fetching" => sites # <<>>
    /\ tpc = "done" =>
          /\ Len(out) = Len(products)
          /\ \A p \in 1..Len(out) :
                /\ out[p].id = products[p].id
                /\ Len(out[p].metafields) = Len(products[p].metafields)
                /\ Len(out[p].variants) = Len(products[p].variants)

\* C15 witness: the build failed on its second page after a first page of
\* media, and the run has returned the records of two products.
C15_Witness ==
    /\ tpc = "done"
    /\ Len(buildLog) = 2
    /\ buildLog[1].resp.t = "data"
    /\ buildLog[2].resp.t \in {"http", "network", "errors"}
    /\ pages[1] # <<>>
    /\ Len(products) = 2
    /\ Len(out) = 2

\* ------------------------------------------------------------------------
\* Properties of the process-wide media index (Spec)
\* ------------------------------------------------------------------------

\* C14: once a build of fetchAllMedia has stored its index, no step of the
\* process changes the stored index or makes a page request for it, and
\* every later call of fetchAllMedia returns the stored index at once.
C14_BuiltIndexIsReused ==
    [][globalMediaCache.set =>
          /\ globalMediaCache' = globalMediaCache
          /\ reqLog' = reqLog \/ reqLog' = <<>>
          /\ (pc = "idle" /\ fn' = "fetchAllMedia") =>
                /\ pc' = "done"
                /\ outcome' = ReturnedIndex(globalMediaCache.map)]_vars

\* C14 witness: a call of fetchAllMedia made after a build has returned the
\* stored index, which holds media, without a request.
C14_Witness ==
    /\ fn = "fetchAllMedia"
    /\ pc = "done"
    /\ reqLog = <<>>
    /\ globalMediaCache.set
    /\ globalMediaCache.map # EmptyMap
    /\ outcome = ReturnedIndex(globalMediaCache.map)

\* ------------------------------------------------------------------------
\* Properties of termination and of fatal errors
\* ------------------------------------------------------------------------

\* C17: against a listing that reports hasNextPage = true on every page,
\* every paginating fetch stops at a page-count ceiling: once it has made as
\* many page requests as the ceiling allows, its loop has ended and it has
\* returned what it collected.
C17_CeilingStopsEveryFetch ==
    (endless /\ Len(reqLog) >= maxPages) =>
        /\ pc = "done"
        /\ outcome.status = "returned"

\* The answer is a transport failure or an errors envelope without a
\* throttling signal.
FatalAnswer(resp) ==
    \/ resp.t \in {"http", "network"}
    \/ resp.t = "errors" /\ "THROTTLED" \notin resp.codes

\* C19: outside the media index build and the cost-limit fallback, a fetch
\* whose page request was answered with a transport failure or with an
\* errors envelope that is no throttling signal ends with an error that
\* carries the payload; its caller gets no list of items.
C19_FatalErrorsPropagate ==
    (/\ pc = "done"
     /\ fn \notin {"idle", "fetchAllMedia"}
     /\ reqLog # <<>>
     /\ FatalAnswer(reqLog[Len(reqLog)].resp)) =>
        /\ outcome.status = "threw"
        /\ outcome.items = <<>>
        /\ outcome.error.kind # "none"
        /\ reqLog[Len(reqLog)].resp.t = "errors" =>
              outcome.error.codes = reqLog[Len(reqLog)].resp.codes

\* C18: a fetch that retries on THROTTLED always comes to an end, with a
\* result or with an error, also when the upstream goes on answering the
\* requests for a page with THROTTLED.
C18_RetryTerminates == (pc = "page") ~> (pc = "done")

\* ------------------------------------------------------------------------
\* Properties of the pacing of the detail queries
\* ------------------------------------------------------------------------

\* C20: the detail queries of the two-phase strategy are made one at a time,
\* in the order of the products, and before every detail query but the
\* first the fixed delay has passed since the one before it, whatever the
\* answer to that one was.
C20_DelayBetweenDetailQueries ==
    /\ pc = "detail" =>
          /\ detailIdx < Len(collected)
          /\ Len(detailLog) = detailIdx
          /\ \A i \in 1..detailIdx : detailLog[i] = collected[i].id
    /\ (pc = "detail" /\ detailIdx > 0) => slept = detailDelayMs

\* ------------------------------------------------------------------------
\* Properties of concurrent builds of the media index (SpecRace)
\* ------------------------------------------------------------------------

\* The index of the whole listing.
FullIndex == AddAllMedia(EmptyMap, Concat(pages))

\* Run r has come back from a build of its own that no request failed.
Built(r) == runs[r].pc \in {"resolving", "done"} /\ runs[r].how = "built"

\* C16: when two runs call fetchAllMedia before either has stored an index,
\* both run the build with requests of their own for every page, both get an
\* index of the whole listing, the global cache ends as that index, and
\* whatever a run resolves against is either no index or the index of the
\* whole listing, never the Map of a build that is still going on.
C16_RacingBuildsAgree ==
    /\ globalMediaCache.set => globalMediaCache.map = FullIndex
    /\ \A r \in Runs :
          /\ Built(r) =>
                /\ runs[r].after = Len(pages)
                /\ runs[r].index = FullIndex
                /\ globalMediaCache = SetCache(runs[r].index)
          /\ runs[r].how = "cached" => runs[r].index = FullIndex
          /\ \A c \in runs[r].used : c = NullCache \/ c = SetCache(FullIndex)
    /\ (Built(1) /\ Built(2)) => runs[1].index = runs[2].index

\* C16 witness: both runs built an index over a listing of two pages with
\* media on each, both resolved against the global cache, and both are done.
C16_Witness ==
    /\ \A r \in Runs :
          /\ runs[r].pc = "done"
          /\ runs[r].how = "built"
          /\ runs[r].after = 2
          /\ runs[r].used # {}
    /\ Len(pages) = 2
    /\ pages[1] # <<>>
    /\ AddAllMedia(EmptyMap, pages[1]) # FullIndex
    /\ globalMediaCache.map = FullIndex

\* ------------------------------------------------------------------------
\* Properties of the cursor, the delays and the retry (Spec)
\* ------------------------------------------------------------------------

\* The number of pages a log holds answers with data for.
DataAnswers(log) == Cardinality({i \in 1..Len(log) : log[i].resp.t = "data"})

\* C29: the first page request of a fetch carries no cursor, every later
\* one the end cursor of the latest page answered before it, and after a
\* page has been answered the loop waits its inter-page delay exactly when
\* that page reported a next page: never after the last page.
C29_CursorAndDelay ==
    /\ \A i \in 1..Len(reqLog) : reqLog[i].after = DataAnswers(SubSeq(reqLog, 1, i - 1))
    /\ (/\ reqLog # <<>>
        /\ reqLog[Len(reqLog)].resp.t = "data"
        /\ pc \in {"page", "done"} \/ (pc = "detail" /\ detailIdx = 0)
        /\ detailIdx = 0) =>
          /\ slept # 0 <=> DataAnswers(reqLog) < Len(pages)
          /\ slept \in {0, 300, 500}

\* C29 witness: the third request of fetchAllCollections, made after a page
\* and a throttled answer, was answered with the second page of three, and
\* the loop waits before the last page.
C29_Witness ==
    /\ fn = "fetchAllCollections"
    /\ pc = "page"
    /\ Len(pages) = 3
    /\ Len(reqLog) = 3
    /\ reqLog[1].resp.t = "data"
    /\ IsThrottled(reqLog[2].resp)
    /\ reqLog[3].resp.t = "data"
    /\ reqLog[3].after = 1
    /\ slept = 300

\* The answer at place i of the log is a throttled one to a loop that
\* retries.
ThrottledRetry(i) ==
    /\ reqLog[i].query \in {"GetAllCollections", "GetCollectionProducts"}
    /\ reqLog[i].resp.t = "errors"
    /\ "THROTTLED" \in reqLog[i].resp.codes

\* C30: in fetchAllCollections and fetchProductsForCollection an answer
\* whose errors hold a THROTTLED code, alone or with others, leaves the
\* cursor and the accumulated items as they were, makes the loop wait the
\* backoff interval, and the next request repeats the query and the cursor
\* of the throttled one.
C30_ThrottleRepeatsRequest ==
    \A i \in 1..Len(reqLog) :
        ThrottledRetry(i) =>
            /\ i < Len(reqLog) =>
                  /\ reqLog[i + 1].query = reqLog[i].query
                  /\ reqLog[i + 1].after = reqLog[i].after
            /\ i = Len(reqLog) =>
                  /\ pc \in {"backoff", "page"}
                  /\ outcome = NoOutcome
                  /\ after = reqLog[i].after
                  /\ collected = Concat(SubSeq(pages, 1, after))
                  /\ slept = backoffMs

\* C30 witness: fetchProductsForCollection has repeated, with the cursor of
\* the first page, the request that was answered THROTTLED together with
\* another error, and holds the items of two pages.
C30_Witness ==
    /\ fn = "fetchProductsForCollection"
    /\ Len(reqLog) = 3
    /\ reqLog[2].resp = Response("errors", {"THROTTLED", "OTHER"}, FALSE)
    /\ reqLog[2].after = 1
    /\ reqLog[3].after = 1
    /\ reqLog[3].resp.t = "data"
    /\ collected # <<>>
    /\ collected = Concat(SubSeq(pages, 1, 2))

\* ------------------------------------------------------------------------
\* Properties of the frame of a transform run (SpecTransform)
\* ------------------------------------------------------------------------

\* The type of a metafield is one of the two reference types.
ReferenceType(metafield) == metafield.type \in {"file_reference", "list.file_reference"}

\* The output list has a field for every input field, in the order of the
\* input, and the fields that are no references are the input fields.
SameFrame(input, output) ==
    /\ Len(output) = Len(input)
    /\ \A i \in 1..Len(input) :
          /\ output[i].key = input[i].key
          /\ output[i].type = input[i].type
          /\ ~ReferenceType(input[i]) => output[i] = input[i]

\* C23: a run of transformDataForLLM returns one record per product, in the
\* order of the input; the metafield lists of each product and of each of
\* its variants keep their length and order, and every metafield whose type
\* is neither file_reference nor list.file_reference is returned as it was
\* given, in its place.
C23_NonReferenceFieldsUntouched ==
    tpc = "done" =>
        /\ Len(out) = Len(products)
        /\ \A p \in 1..Len(products) :
              /\ out[p].id = products[p].id
              /\ SameFrame(products[p].metafields, out[p].metafields)
              /\ Len(out[p].variants) = Len(products[p].variants)
              /\ \A v \in 1..Len(products[p].variants) :
                    /\ out[p].variants[v].id = products[p].variants[v].id
                    /\ SameFrame(products[p].variants[v].metafields,
                                 out[p].variants[v].metafields)

\* C23 witness: a run over two different products has returned; one of them
\* has a text field whose value is the id of a media item that the global
\* index has a url for, next to a reference that was resolved.
C23_Witness ==
    /\ tpc = "done"
    /\ Len(products) = 2
    /\ products[1].id # products[2].id
    /\ globalMediaCache.set
    /\ \E p \in 1..2 :
          \E i, j \in 1..Len(products[p].metafields) :
              /\ ~ReferenceType(products[p].metafields[i])
              /\ Truthy(MapGet(globalMediaCache.map, products[p].metafields[i].value.s))
              /\ out[p].metafields[j].processed

\* ------------------------------------------------------------------------
\* Properties of executeGraphQL (SpecExecute)
\* ------------------------------------------------------------------------

\* C24: a call of executeGraphQL makes one transport request and never a
\* second: without shop url or access token it throws before any request;
\* a network failure or a non-success status makes it throw; every other
\* answer is returned as the parsed envelope, also when it carries
\* application-level errors.
C24_OneRequestNoRetry ==
    /\ exec.sent <= 1
    /\ exec.pc = "sent" => exec.sent = 1 /\ ~CredentialsMissing(creds)
    /\ exec.pc = "done" =>
          IF ~creds.shopUrl \/ ~creds.token
          THEN /\ exec.sent = 0
               /\ exec.result.status = "threw"
               /\ exec.result.error.kind = "credentials"
          ELSE /\ exec.sent = 1
               /\ exec.answer.t \in {"http", "network"} =>
                     /\ exec.result.status = "threw"
                     /\ exec.result.error.kind = exec.answer.t
               /\ exec.answer.t \in {"data", "nodata", "errors"} =>
                     /\ exec.result.status = "returned"
                     /\ exec.result.envelope = exec.answer

\* C24 witness: a call with credentials was answered with an errors
\* envelope holding THROTTLED, and returned it after its one request.
C24_Witness ==
    /\ exec.pc = "done"
    /\ exec.sent = 1
    /\ exec.answer = Response("errors", {"THROTTLED"}, FALSE)
    /\ exec.result.status = "returned"
    /\ exec.result.envelope = exec.answer

\* ------------------------------------------------------------------------
\* Properties of the route loaders (SpecRoutes)
\* ------------------------------------------------------------------------

\* The request being served was let through by the API key check.
KeyAccepted == apiKeyEnv = "" \/ req.apiKey = apiKeyEnv

\* C21: while a request for the products is being served, at most one
\* upstream query is awaited at any time.
C21_OneQueryInFlight ==
    req.route \in ProductRoutes => req.inflight <= 1 /\ req.peak <= 1

\* C25: a request for the products with refresh=true that passes the key
\* check is never answered from a cache: it has queried the upstream when
\* it is answered, a 200 carries the response built from that fetch, and an
\* entry it left in a cache is that response.
C25_RefreshNeverFromCache ==
    (/\ req.pc = "responded"
     /\ req.route \in ProductRoutes
     /\ req.refresh
     /\ KeyAccepted) =>
        /\ req.asked
        /\ reply.status = 200 =>
              /\ reply.body = req.data
              /\ ~reply.body.fromCache
              /\ reply.body.items = req.items
              /\ StoreOf(req.route) = "memory" =>
                    memCache[KeyOf(req.route)].data = req.data
              /\ redis # req.redisBefore => redis = req.data

\* C26: with API_KEY set, a request whose apiKey parameter is another value
\* or missing is answered 401 by every route at once, with no upstream
\* query, no fetch started, no cached data in the body, and every cache as
\* it was when the request came in.
C26_WrongKeyTouchesNothing ==
    (/\ req.pc # "idle"
     /\ apiKeyEnv # ""
     /\ req.apiKey # apiKeyEnv) =>
        /\ req.pc = "responded"
        /\ reply = Res(401, Failure("Unauthorized"))
        /\ ~req.asked
        /\ ~req.looked
        /\ tasks = NoTasks
        /\ memCache = req.memBefore
        /\ redis = req.redisBefore

\* C26 witness: the search route answers 401 to a wrong key while the
\* products are cached in memory, and the entry is as it was.
C26_Witness ==
    /\ req.pc = "responded"
    /\ req.route = "search"
    /\ req.apiKey = "wrong"
    /\ reply.status = 401
    /\ memCache["shopify_products_data"].present
    /\ memCache = req.memBefore

\* C27: a failing Redis cache is never fatal for the products loader: no
\* response is the 500 of a cache error; a request whose cache read failed
\* has gone on to the upstream fetch; a request whose cache write failed is
\* answered 200 with the freshly built response and success = true.
C27_CacheFailureNotFatal ==
    req.route = "products" =>
        /\ reply.body.error # "Redis"
        /\ req.readFailed =>
              /\ req.asked
              /\ req.pc = "responded" /\ reply.status = 200 => ~reply.body.fromCache
        /\ req.writeFailed =>
              /\ req.pc = "responded"
              /\ reply = Res(200, req.data)
              /\ reply.body.success
              /\ reply.body.items = req.items
              /\ redis = req.redisBefore

\* C27 witness: a request with cache=true whose read and write both failed
\* while Redis held an older response is answered 200 with fresh records.
C27_Witness ==
    /\ req.pc = "responded"
    /\ req.route = "products"
    /\ req.readFailed
    /\ req.writeFailed
    /\ redis # NoData
    /\ reply.status = 200
    /\ reply.body.items # redis.items

\* The request being served is for the products and has a cache to read.
CachedProducts == req.route \in {"products", "productsMemory"}

\* C28: a products request that finds a live entry in its cache is answered
\* with the stored response and makes no upstream query; one that finds
\* none queries the upstream, and the cache is written only when fetch and
\* transform have succeeded, with the response that is returned: until then,
\* and after a 500, every entry is as it was or gone, never new.
C28_ReadThroughWriteThrough ==
    CachedProducts =>
        /\ (req.looked /\ req.found # NoData) =>
              /\ req.pc = "responded"
              /\ ~req.asked
              /\ reply.status = 200
              /\ reply.body.items = req.found.items
              /\ reply.body = IF req.route = "products"
                              THEN [req.found EXCEPT !.fromCache = TRUE, !.timestamp = now]
                              ELSE req.found
              /\ memCache = req.memBefore
              /\ redis = req.redisBefore
        /\ (req.pc = "responded" /\ KeyAccepted /\ req.found = NoData) =>
              /\ req.asked
              /\ reply.status \in {200, 500}
              /\ reply.status = 200 => reply.body = req.data /\ reply.body.items = req.items
        /\ (req.pc \notin {"idle", "responded"} \/ reply.status = 500) =>
              /\ redis = req.redisBefore
              /\ \A k \in CacheKeys : memCache[k] \in {req.memBefore[k], Absent}
        /\ redis # req.redisBefore =>
              /\ reply.status = 200
              /\ redis = reply.body
        /\ memCache[KeyOf(req.route)] \notin {req.memBefore[KeyOf(req.route)], Absent} =>
              /\ reply.status = 200
              /\ memCache[KeyOf(req.route)].data = reply.body

\* C28 witness: the loader that caches in memory answers from an entry at
\* its expiry while the shop has moved on, without a query.
C28_Witness ==
    /\ req.pc = "responded"
    /\ req.route = "productsMemory"
    /\ req.looked
    /\ req.found # NoData
    /\ req.memBefore["shopify_products_data"].expiresAt = now
    /\ now > 0
    /\ reply.body.items # shop
    /\ ~req.asked

\* ------------------------------------------------------------------------
\* Properties of the index build seen from a transform run (SpecTransform)
\* ------------------------------------------------------------------------

\* A field of the output is a processed reference that still holds an id.
StillUnresolved(metafield) ==
    /\ metafield.processed
    /\ ReferenceType(metafield)
    /\ TextIncludesGid(metafield.value)

\* C31: a run of transformDataForLLM makes a direct fetch (fetchMediaById)
\* only when the global index is absent because the build of this run
\* failed; while the index is set, with or without entries, the run makes
\* no direct fetch and has no site left to fetch, whatever references stay
\* unresolved.
C31_DirectFetchOnlyWithoutIndex ==
    /\ (tpc = "fetching" \/ fetchLog # <<>>) =>
          /\ ~globalMediaCache.set
          /\ BuildFailed(buildLog)
    /\ (globalMediaCache.set /\ tpc \in {"fetching", "done"}) =>
          /\ fetchLog = <<>>
          /\ sites = <<>>
          /\ tpc = "done"

\* C31 witness: the build succeeded without an entry, the run has returned
\* a list reference that still holds an id, and no direct fetch was made.
C31_Witness ==
    /\ tpc = "done"
    /\ globalMediaCache = SetCache(EmptyMap)
    /\ buildLog # <<>>
    /\ ~BuildFailed(buildLog)
    /\ fetchLog = <<>>
    /\ \E p \in 1..Len(out) : \E i \in 1..Len(out[p].metafields) :
          StillUnresolved(out[p].metafields[i])

\* The fields of the current call as processMetafields makes them without
\* any media index.
ProcessedWithoutIndex ==
    ProcessMetafields(FieldsOfCall(pi, vi), products[pi].images, products[pi].media,
                      NullCache, NullCache)

\* C32: a build of fetchAllMedia that fails leaves the process-wide index
\* unset and returns an empty Map, whatever keys it had collected; the
\* index is only ever set to the index of all the pages, never to a part of
\* it; a call of fetchAllMedia made while the index is unset pages through
\* the listing from its first page, filling a Map that holds the keys of
\* the pages this call was answered and nothing else; and the resolvers of
\* a run whose build failed work as without any index.
C32_FailedBuildLeavesNoIndex ==
    /\ (query = "GetAllMedia" /\ pc = "done" /\ BuildFailed(reqLog)) =>
          /\ globalMediaCache = NullCache
          /\ outcome = ReturnedIndex(EmptyMap)
    /\ globalMediaCache.set =>
          globalMediaCache.map = AddAllMedia(EmptyMap, Concat(pages))
    /\ (query = "GetAllMedia" /\ pc \in {"page", "done"} /\ ~globalMediaCache.set) =>
          /\ pc = "done" => reqLog # <<>>
          /\ reqLog # <<>> => reqLog[1].after = 0
          /\ after = DataAnswers(reqLog)
          /\ mediaCache = AddAllMedia(EmptyMap, Concat(SubSeq(pages, 1, after)))
    /\ (tpc \in {"fetching", "done"} /\ BuildFailed(buildLog)) =>
          /\ ~globalMediaCache.set
          /\ initialProcessed = ProcessedWithoutIndex

\* C32 witness: the build of a run failed on its second page after a first
\* page that gave it the keys of a media item; the index is unset and the
\* run is about to ask the upstream for that very item.
C32_Witness ==
    /\ tpc = "fetching"
    /\ Len(buildLog) = 2
    /\ buildLog[1].resp.t = "data"
    /\ BuildFailed(buildLog)
    /\ pages[1] = <<NodeB, NodeD, NodeC>>
    /\ globalMediaCache = NullCache
    /\ sites # <<>>
    /\ Head(sites).id = IdB

\* ------------------------------------------------------------------------
\* Properties of the products request and its readers (SpecRoutes)
\* ------------------------------------------------------------------------

\* C33: while one products request is served, by the prefetch of the route
\* and by transformDataForLLM after it, the media listing is paged through
\* from its first page at most once, whether that build succeeds or fails.
C33_OneBuildPerRequest == req.builds <= 1

\* ------------------------------------------------------------------------
\* Properties of the fallback of fetchAllProducts (Spec)
\* ------------------------------------------------------------------------

\* The records of the two-phase strategy at places 1..n are those of the
\* enumerated products at the same places, one each.
OnePerProduct(records, enumerated, n) ==
    /\ Len(records) = n
    /\ \A i \in 1..n :
          /\ records[i].id = enumerated[i].id
          /\ records[i].node = enumerated[i]

\* C34: once fetchAllProducts has fallen back, on the first or on a later
\* page of the rich query, nothing of the rich pass is left: what is
\* collected is what the basic query has enumerated so far, the detail
\* queries made are those of the first products of that enumeration, one
\* each and in its order, with one record pushed per query, and the result
\* is one record per enumerated product, in order, failed detail queries
\* giving shallow records.
C34_FallbackStartsOver ==
    (fn = "fetchAllProducts" /\ strategy = "two-phase") =>
        /\ fallbackCause.query = "GetAllProducts"
        /\ collected = Concat(SubSeq(pages, 1, after))
        /\ detailIdx <= Len(collected)
        /\ detailLog = [i \in 1..detailIdx |-> collected[i].id]
        /\ OnePerProduct(enrichedProducts, collected, detailIdx)
        /\ Cardinality({i \in 1..detailIdx : ~enrichedProducts[i].detailed}) = detailFaults
        /\ (pc = "done" /\ outcome.status = "returned") =>
              /\ OnePerProduct(outcome.items, Concat(pages), Len(Concat(pages)))
              /\ Len(detailLog) = Len(Concat(pages))

\* C34 witness: the cost-limit envelope came on the second page of the rich
\* query, after a first page of products, and fetchAllProducts has returned
\* the records of the basic enumeration, one of them shallow.
C34_Witness ==
    /\ fn = "fetchAllProducts"
    /\ pc = "done"
    /\ CostEnvelope(fallbackCause.resp)
    /\ fallbackCause.after = 1
    /\ pages[1] # <<>>
    /\ detailFaults = 1
    /\ Len(outcome.items) = Len(Concat(pages))
    /\ Len(outcome.items) >= 2

\* ------------------------------------------------------------------------
\* Properties of the items of the index build (SpecMedia)
\* ------------------------------------------------------------------------

\* The url the build is to take from an item: its image url, else the url
\* of its first source, else its embedded url; NoStr when it has none.
UrlByPrecedence(media) ==
    CASE media.image # NoStr /\ media.image # EmptyStr -> media.image
      [] media.image \in {NoStr, EmptyStr} /\ media.sources # <<>> -> Head(media.sources)
      [] OTHER -> media.embeddedUrl

\* The items among nodes that have an id and a url.
WithIdAndUrl(nodes) ==
    {i \in 1..Len(nodes) : Truthy(nodes[i].id) /\ Truthy(UrlByPrecedence(nodes[i]))}

\* The Map m holds what the items of nodes give it: keys of items with an
\* id and a url only, and under each key the url, by precedence, of an item
\* that has the key.
HoldsUrlsOf(m, nodes) ==
    /\ DOMAIN m = UNION {KeysOf(nodes[i].id) : i \in WithIdAndUrl(nodes)}
    /\ \A k \in DOMAIN m :
          /\ Truthy(m[k])
          /\ \E i \in WithIdAndUrl(nodes) :
                /\ k \in KeysOf(nodes[i].id)
                /\ m[k] = UrlByPrecedence(nodes[i])
    /\ \A i \in WithIdAndUrl(nodes) :
          (\A j \in WithIdAndUrl(nodes) : j # i => KeysOf(nodes[j].id) \cap KeysOf(nodes[i].id) = {})
              => \A k \in KeysOf(nodes[i].id) : m[k] = UrlByPrecedence(nodes[i])

\* C35: the Map a build of fetchAllMedia fills, and the index it stores,
\* hold for every item seen one url taken by the precedence image url,
\* first source url, embedded url; an item without an id or without a url
\* adds no key and does not make the build fail, so every stored value is
\* a non-empty url.
C35_IndexHoldsUrlsByPrecedence ==
    /\ (fn = "fetchAllMedia" /\ reqLog # <<>>) =>
          HoldsUrlsOf(mediaCache, Concat(SubSeq(pages, 1, after)))
    /\ (fn = "fetchAllMedia" /\ pc = "done" /\ reqLog # <<>> /\ ~BuildFailed(reqLog)) =>
          /\ outcome = ReturnedIndex(mediaCache)
          /\ globalMediaCache = SetCache(mediaCache)
    /\ globalMediaCache.set => HoldsUrlsOf(globalMediaCache.map, Concat(pages))

\* C35 witness: the index was built from a page with an item that has all
\* three urls and a file of which nothing but an empty object is listed.
C35_Witness ==
    /\ pages = <<<<NodeE, NodeNone>>>>
    /\ fn = "fetchAllMedia"
    /\ pc = "done"
    /\ globalMediaCache.set
    /\ MapGet(globalMediaCache.map, NodeE.id) = Url("e")
    /\ DOMAIN globalMediaCache.map = KeysOf(NodeE.id)

\* ------------------------------------------------------------------------
\* Properties of fetchInventoryLevels (SpecInventory)
\* ------------------------------------------------------------------------

\* The records of the inventory levels of the first n pages.
InventoryOf(n) ==
    LET nodes == Concat(SubSeq(pages, 1, n))
    IN [i \in 1..Len(nodes) |-> [inventoryLevelId |-> nodes[i].id]]

\* C36: fetchInventoryLevels never throws and never makes more than
\* maxPages (50) page requests; it is in its loop only while every answer
\* was a page and fewer than 50 were asked for; it ends at the first answer
\* that is no page and returns the records of the pages before it; and it
\* warns of truncation exactly when it has ended on its 50th page with that
\* page reporting a next page.
C36_InventoryStopsAndWarns ==
    fn = "fetchInventoryLevels" =>
        /\ Len(reqLog) <= maxPages
        /\ outcome.status # "threw"
        /\ pc \in {"page", "done"}
        /\ \A i \in 1..(Len(reqLog) - 1) : reqLog[i].resp.t = "data"
        /\ pc = "page" =>
              /\ Len(reqLog) < maxPages
              /\ DataAnswers(reqLog) = Len(reqLog)
        /\ pc = "done" =>
              /\ reqLog # <<>>
              /\ outcome.status = "returned"
              /\ outcome.items = InventoryOf(DataAnswers(reqLog))
              /\ outcome.warned <=>
                    /\ Len(reqLog) = maxPages
                    /\ reqLog[Len(reqLog)].resp.t = "data"
                    /\ Len(pages) > maxPages

\* C36 witness: the 50th page of a listing of 51 was answered, and
\* fetchInventoryLevels has returned the records of 50 pages with the
\* warning.
C36_Witness ==
    /\ fn = "fetchInventoryLevels"
    /\ pc = "done"
    /\ Len(pages) = maxPages + 1
    /\ Len(reqLog) = maxPages
    /\ Len(outcome.items) = maxPages
    /\ outcome.warned

\* ------------------------------------------------------------------------
\* Properties of fetchMediaById (SpecById)
\* ------------------------------------------------------------------------

\* The upstream has a node of that id, and the node has a url.
NodeWithUrl(id) ==
    \E n \in UpstreamMedia :
        n.id = id /\ (n.image # NoStr \/ n.sources # <<>> \/ Truthy(n.embeddedUrl))

\* C37: a call of fetchMediaById never throws.  When the global index holds
\* a url under the id it returns that url without any request; else it
\* makes one request at most and returns null when the request fails in
\* the transport, when it is answered with errors or without data, when
\* the upstream has no node of that id, and when the node has no url.
C37_MediaByIdNeverThrows ==
    byId.pc = "done" =>
        /\ ~byId.result.threw
        /\ byId.sent <= 1
        /\ (globalMediaCache.set /\ byId.id \in DOMAIN globalMediaCache.map) =>
              /\ byId.sent = 0
              /\ byId.result.found
              /\ byId.result.url = globalMediaCache.map[byId.id]
        /\ byId.sent = 0 =>
              \/ globalMediaCache.set /\ byId.id \in DOMAIN globalMediaCache.map
              \/ ~creds.shopUrl \/ ~creds.token
        /\ (byId.sent = 1 /\ byId.answer.t \in {"http", "network", "errors", "nodata"}) =>
              ~byId.result.found
        /\ (byId.sent = 1 /\ ~NodeWithUrl(byId.id)) => ~byId.result.found
        /\ byId.result.found => Truthy(byId.result.url)
        /\ ~byId.result.found => byId.result.url = NoStr

\* C37 witness: the index is built and holds the last segment of an id as
\* a key; fetchMediaById was called with that bare number and has returned
\* the url without a request.
C37_Witness ==
    /\ byId.pc = "done"
    /\ byId.id = <<"42">>
    /\ globalMediaCache.set
    /\ byId.sent = 0
    /\ byId.result.found
    /\ Truthy(byId.result.url)

\* The key under which search and identifier look for the products.
ReadersKey == KeyOf("search")

\* C38: when a request for the products completes with success, the cache
\* that search and identifier read holds the products data; the entry stays
\* there until its expiry has passed; and a reader that finds a live entry
\* does not answer 404.
C38_ReadersFindProducts ==
    [][/\ (req'.route \in ProductRoutes /\ req.pc # "responded" /\ req'.pc = "responded"
           /\ reply'.status = 200) =>
             CacheGet(memCache', ReadersKey, now') # NoData
       /\ (memCache[ReadersKey].present /\ ~memCache'[ReadersKey].present) =>
             memCache[ReadersKey].expiresAt < now
       /\ (req'.route \in ReaderRoutes /\ req.pc # "responded" /\ req'.pc = "responded"
           /\ reply'.status = 404) =>
             CacheGet(memCache, ReadersKey, now) = NoData]_vars

\* ------------------------------------------------------------------------
\* Properties of the in-memory Cache (SpecCache)
\* ------------------------------------------------------------------------

\* The set is there and the time t is not later than its expiry.
LiveAt(latest, t) == latest.set /\ t <= latest.at + latest.ttlSeconds

\* C39: over any sequence of set, get, delete and clear while time passes,
\* a get of a key returns the data of the latest set of the key when that
\* set was followed by no delete of the key and no clear and the time of
\* the get is not later than the time of the set plus its ttlSeconds, and
\* null otherwise; and a get that finds an expired entry removes it.  The
\* Map holds an entry for a key only after such a set, with its data and
\* its expiry.
C39_GetReturnsLatestLiveSet ==
    /\ cacheLog.op = "get" =>
          LET latest == cacheLog.latest[cacheLog.key]
          IN /\ cacheLog.got = IF LiveAt(latest, cacheLog.at) THEN latest.data ELSE NoData
             /\ ~LiveAt(latest, cacheLog.at) => ~memCache[cacheLog.key].present
    /\ \A k \in CacheKeys :
          memCache[k].present =>
              /\ cacheLog.latest[k].set
              /\ memCache[k].data = cacheLog.latest[k].data
              /\ memCache[k].expiresAt = cacheLog.latest[k].at + cacheLog.latest[k].ttlSeconds

\* C39 witness: a get made after the expiry of the latest set of its key
\* returned null and removed the entry, while the entry of another key,
\* set with a longer time to live, is still there.
C39_Witness ==
    /\ cacheLog.op = "get"
    /\ cacheLog.latest[cacheLog.key].set
    /\ cacheLog.at > cacheLog.latest[cacheLog.key].at + cacheLog.latest[cacheLog.key].ttlSeconds
    /\ cacheLog.got = NoData
    /\ ~memCache[cacheLog.key].present
    /\ \E k \in CacheKeys : k # cacheLog.key /\ memCache[k].present

====
